---------------------------- MODULE Spec2Model ----------------------------
(***************************************************************************)
(* A model of the resume analysis engine of resume_screener:              *)
(*   app/skills/skill_database.py       SkillDatabase (the taxonomy)       *)
(*   app/skills/skill_extractor.py      SkillExtractor                     *)
(*   app/skills/experience_detector.py  ExperienceDetector                 *)
(*                                                                         *)
(* Python strings are TLA+ strings; every string operation of the code     *)
(* (lower, strip, title, slicing, the regular expressions) is computed     *)
(* character by character.  Two characters of the model's alphabet stand   *)
(* for code points outside ASCII: "^" is U+0130 (capital I with dot above) *)
(* and "~" is U+0307 (combining dot above).                                *)
(***************************************************************************)
EXTENDS Integers, Sequences, FiniteSets, TLC

VARIABLES
    skill,          \* SkillDatabase: the argument of normalize / get_category
    db_pc,          \* SkillDatabase: which calls have returned
    normalized,     \* normalize(skill)
    renormalized,   \* normalize(normalize(skill))
    category,       \* get_category(skill)
    categories,     \* the category sets every SkillDatabase shares, SKILL_CATEGORIES
    related,        \* the set get_related_skills(skill) handed to the caller
    text,           \* SkillExtractor: the argument of extract_skills
    ex_pc,          \* SkillExtractor: where extract_skills is
    sentences,      \* the sentences still to scan, the current one first
    matches,        \* the matches of the current sentence still to handle
    seen_skills,    \* lowered normalized names recorded so far
    skills,         \* the list extract_skills returns
    ex_call,        \* the first or the second call of extract_skills
    first_skills,   \* the list the first call returned
    ed_text,        \* ExperienceDetector: the text analyze_experience is called on
    required_skills,\* the required_skills it is called with
    clock,          \* <<year, month>> of datetime.now()
    ticks,          \* how often the clock has moved on
    ed_pc,          \* where analyze_experience is
    call,           \* the first or the second call
    entries,        \* the entries of the section still to parse
    work_experiences, \* the WorkExperience list built so far
    projects,       \* the Project list built so far
    analysis,       \* the ExperienceAnalysis the current call returned
    first_analysis, \* the ExperienceAnalysis the first call returned
    content,        \* DocumentProcessor: the bytes process_bytes is called on
    filename,       \* the filename it is called with
    dp_pc,          \* where process_bytes is
    doc_type,       \* the DocumentType detected
    result          \* the ParseResult returned

db_vars == <<skill, db_pc, normalized, renormalized, category, categories, related>>
ex_vars == <<text, ex_pc, sentences, matches, seen_skills, skills, ex_call, first_skills>>
ed_vars == <<ed_text, required_skills, clock, ticks, ed_pc, call, entries, work_experiences,
             projects, analysis, first_analysis>>
dp_vars == <<content, filename, dp_pc, doc_type, result>>
vars == <<db_vars, ex_vars, ed_vars, dp_vars>>

None == "<None>"

\* a component no call is made on
ExIdle ==
    /\ text = ""
    /\ ex_pc = "idle"
    /\ sentences = <<>>
    /\ matches = <<>>
    /\ seen_skills = {}
    /\ skills = <<>>
    /\ ex_call = 0
    /\ first_skills = <<>>

EdIdle ==
    /\ ed_text = ""
    /\ required_skills = <<>>
    /\ clock = <<0, 0>>
    /\ ticks = 0
    /\ ed_pc = "idle"
    /\ call = 0
    /\ entries = <<>>
    /\ work_experiences = <<>>
    /\ projects = <<>>
    /\ analysis = None
    /\ first_analysis = None

DpIdle ==
    /\ content = ""
    /\ filename = ""
    /\ dp_pc = "idle"
    /\ doc_type = None
    /\ result = None

(***************************************************************************)
(* Characters and the str methods the code calls.                          *)
(***************************************************************************)
LowerLetters == "abcdefghijklmnopqrstuvwxyz"
UpperLetters == "ABCDEFGHIJKLMNOPQRSTUVWXYZ"
DigitChars == "0123456789"

CharsOf(s) == {SubSeq(s, i, i) : i \in 1..Len(s)}
At(s, i) == SubSeq(s, i, i)

LowerSet == CharsOf(LowerLetters)
UpperSet == CharsOf(UpperLetters)
DigitSet == CharsOf(DigitChars)

IsLower(c) == c \in LowerSet
IsUpper(c) == c \in UpperSet \cup {"^"}
IsDigit(c) == c \in DigitSet
\* str.isspace for the characters of the model
SpaceSet == {" ", "\n", "\t"}
IsSpace(c) == c \in SpaceSet
\* Unicode property Cased; U+0307 is a mark, not cased
IsCased(c) == IsLower(c) \/ IsUpper(c)

LetterIndex(letters, c) == CHOOSE i \in 1..Len(letters) : At(letters, i) = c

\* str.lower of one character; U+0130 lowers to "i" followed by U+0307
lower_char(c) ==
    IF c = "^" THEN "i~"
    ELSE IF c \in UpperSet
         THEN At(LowerLetters, LetterIndex(UpperLetters, c))
         ELSE c

\* str.upper / title case of one character
upper_char(c) ==
    IF IsLower(c) THEN At(UpperLetters, LetterIndex(LowerLetters, c)) ELSE c

\* ''.join(parts[lo..hi]), halving the range
RECURSIVE join_range(_, _, _)
join_range(parts, lo, hi) ==
    IF lo > hi THEN ""
    ELSE IF lo = hi THEN parts[lo]
    ELSE LET mid == (lo + hi) \div 2
         IN  join_range(parts, lo, mid) \o join_range(parts, mid + 1, hi)

\* str.lower, str.upper: character by character
lower(s) == join_range([i \in 1..Len(s) |-> lower_char(At(s, i))], 1, Len(s))
upper(s) == join_range([i \in 1..Len(s) |-> upper_char(At(s, i))], 1, Len(s))

\* str.strip(): drops leading and trailing whitespace
strip(s) ==
    LET keep == {i \in 1..Len(s) : ~IsSpace(At(s, i))}
    IN  IF keep = {} THEN ""
        ELSE SubSeq(s, CHOOSE i \in keep : \A j \in keep : i <= j,
                       CHOOSE i \in keep : \A j \in keep : i >= j)

\* str.title(): a character that follows a cased character is lowered, any
\* other character is title-cased
title(s) ==
    join_range([i \in 1..Len(s) |->
                   IF i > 1 /\ IsCased(At(s, i - 1)) THEN lower_char(At(s, i))
                   ELSE upper_char(At(s, i))], 1, Len(s))

(***************************************************************************)
(* skill_database.py: the taxonomy tables.                                 *)
(***************************************************************************)
SKILL_ALIASES ==
    << <<"js", "JavaScript">>, <<"javascript", "JavaScript">>, <<"es6", "JavaScript">>,
       <<"es2015", "JavaScript">>, <<"ecmascript", "JavaScript">>, <<"ts", "TypeScript">>,
       <<"typescript", "TypeScript">>, <<"py", "Python">>, <<"python", "Python">>,
       <<"python3", "Python">>, <<"python2", "Python">>, <<"react", "React">>,
       <<"reactjs", "React">>, <<"react.js", "React">>, <<"node", "Node.js">>,
       <<"nodejs", "Node.js">>, <<"node.js", "Node.js">>, <<"postgres", "PostgreSQL">>,
       <<"postgresql", "PostgreSQL">>, <<"mysql", "MySQL">>, <<"mongo", "MongoDB">>,
       <<"mongodb", "MongoDB">>, <<"sql server", "SQL Server">>, <<"mssql", "SQL Server">>,
       <<"aws", "AWS">>, <<"amazon web services", "AWS">>, <<"azure", "Azure">>,
       <<"microsoft azure", "Azure">>, <<"gcp", "Google Cloud">>,
       <<"google cloud", "Google Cloud">>, <<"google cloud platform", "Google Cloud">>,
       <<"docker", "Docker">>, <<"containerization", "Docker">>, <<"k8s", "Kubernetes">>,
       <<"kubernetes", "Kubernetes">>, <<"c#", "C#">>, <<"csharp", "C#">>,
       <<"c sharp", "C#">>, <<"c++", "C++">>, <<"cpp", "C++">>, <<".net", ".NET">>,
       <<"dotnet", ".NET">>, <<"dot net", ".NET">>, <<"ml", "Machine Learning">>,
       <<"machine learning", "Machine Learning">>, <<"ai", "Artificial Intelligence">>,
       <<"artificial intelligence", "Artificial Intelligence">>, <<"dl", "Deep Learning">>,
       <<"deep learning", "Deep Learning">>, <<"nlp", "NLP">>,
       <<"natural language processing", "NLP">>, <<"tensorflow", "TensorFlow">>,
       <<"tf", "TensorFlow">>, <<"pytorch", "PyTorch">>, <<"torch", "PyTorch">>,
       <<"git", "Git">>, <<"github", "GitHub">>, <<"gitlab", "GitLab">>,
       <<"bitbucket", "Bitbucket">>, <<"ci/cd", "CI/CD">>, <<"cicd", "CI/CD">>,
       <<"continuous integration", "CI/CD">>, <<"jenkins", "Jenkins">>,
       <<"agile", "Agile">>, <<"scrum", "Scrum">>, <<"kanban", "Kanban">>,
       <<"angular", "Angular">>, <<"angularjs", "Angular">>, <<"vue", "Vue.js">>,
       <<"vuejs", "Vue.js">>, <<"vue.js", "Vue.js">>, <<"svelte", "Svelte">>,
       <<"nextjs", "Next.js">>, <<"next.js", "Next.js">>, <<"django", "Django">>,
       <<"flask", "Flask">>, <<"fastapi", "FastAPI">>, <<"express", "Express.js">>,
       <<"expressjs", "Express.js">>, <<"spring", "Spring">>,
       <<"spring boot", "Spring Boot">>, <<"springboot", "Spring Boot">>,
       <<"react native", "React Native">>, <<"flutter", "Flutter">>, <<"swift", "Swift">>,
       <<"kotlin", "Kotlin">>, <<"ios", "iOS Development">>,
       <<"android", "Android Development">>, <<"pandas", "Pandas">>, <<"numpy", "NumPy">>,
       <<"scipy", "SciPy">>, <<"scikit-learn", "Scikit-learn">>,
       <<"sklearn", "Scikit-learn">>, <<"matplotlib", "Matplotlib">>,
       <<"seaborn", "Seaborn">>, <<"spark", "Apache Spark">>,
       <<"apache spark", "Apache Spark">>, <<"hadoop", "Hadoop">>,
       <<"kafka", "Apache Kafka">>, <<"apache kafka", "Apache Kafka">>, <<"jest", "Jest">>,
       <<"mocha", "Mocha">>, <<"pytest", "pytest">>, <<"unittest", "unittest">>,
       <<"selenium", "Selenium">>, <<"cypress", "Cypress">>, <<"rest", "REST API">>,
       <<"restful", "REST API">>, <<"rest api", "REST API">>, <<"graphql", "GraphQL">>,
       <<"grpc", "gRPC">> >>

SKILL_CATEGORIES ==
    << <<"programming_languages", {"JavaScript", "TypeScript", "Python", "Java", "C#",
            "C++", "C", "Go", "Rust", "Ruby", "PHP", "Swift", "Kotlin", "Scala", "R",
            "MATLAB", "Perl", "Haskell", "Elixir", "Clojure"}>>,
       <<"frontend", {"React", "Angular", "Vue.js", "Svelte", "Next.js", "HTML", "CSS",
            "Sass", "Less", "Tailwind CSS", "Bootstrap", "Material UI", "Redux", "MobX",
            "Webpack", "Vite", "jQuery"}>>,
       <<"backend", {"Node.js", "Django", "Flask", "FastAPI", "Express.js", "Spring",
            "Spring Boot", ".NET", "Ruby on Rails", "Laravel", "ASP.NET"}>>,
       <<"databases", {"PostgreSQL", "MySQL", "MongoDB", "Redis", "Elasticsearch",
            "SQL Server", "Oracle", "SQLite", "Cassandra", "DynamoDB", "Firebase",
            "Neo4j"}>>,
       <<"cloud", {"AWS", "Azure", "Google Cloud", "Heroku", "DigitalOcean", "Vercel",
            "Netlify", "Cloudflare"}>>,
       <<"devops", {"Docker", "Kubernetes", "CI/CD", "Jenkins", "GitHub Actions",
            "GitLab CI", "Terraform", "Ansible", "Linux", "Nginx", "Apache"}>>,
       <<"data_science", {"Machine Learning", "Deep Learning", "NLP", "TensorFlow",
            "PyTorch", "Keras", "Scikit-learn", "Pandas", "NumPy", "Data Analysis",
            "Statistics", "Computer Vision"}>>,
       <<"mobile", {"React Native", "Flutter", "iOS Development", "Android Development",
            "Swift", "Kotlin", "Xamarin"}>>,
       <<"tools", {"Git", "GitHub", "GitLab", "Bitbucket", "Jira", "Confluence", "Slack",
            "VS Code", "IntelliJ", "Postman", "Figma"}>>,
       <<"soft_skills", {"Leadership", "Communication", "Teamwork", "Problem Solving",
            "Critical Thinking", "Time Management", "Agile", "Scrum", "Project Management",
            "Mentoring"}>>,
       <<"testing", {"Jest", "Mocha", "pytest", "Selenium", "Cypress", "JUnit", "TestNG",
            "Unit Testing", "Integration Testing", "E2E Testing", "TDD", "BDD"}>> >>

(***************************************************************************)
(* skill_database.py: class SkillDatabase.                                 *)
(***************************************************************************)
\* self._aliases = {k.lower(): v for k, v in SKILL_ALIASES.items()}, as the set
\* of its (key, value) pairs; a later pair with the same lowered key replaces
\* an earlier one
_aliases ==
    LET key == [i \in 1..Len(SKILL_ALIASES) |-> lower(SKILL_ALIASES[i][1])]
    IN  {<<key[i], SKILL_ALIASES[i][2]>> :
            i \in {j \in 1..Len(SKILL_ALIASES) :
                      \A k \in (j + 1)..Len(SKILL_ALIASES) : key[k] # key[j]}}

AliasKeys == {p[1] : p \in _aliases}

\* self._aliases[k]
AliasValue(k) == (CHOOSE p \in _aliases : p[1] = k)[2]

\* self._categories = SKILL_CATEGORIES
_categories == SKILL_CATEGORIES

\* _build_skill_set: every category member and every alias target
_all_skills ==
    UNION {_categories[i][2] : i \in 1..Len(_categories)} \cup {p[2] : p \in _aliases}

\* (known_skill.lower(), known_skill) for each known skill, as the loop of
\* normalize compares them
known_lower == {<<lower(k), k>> : k \in _all_skills}

\* normalize as it would be without lowering the argument
normalize_case_sensitive(s) ==
    LET skill_lower == strip(s)
    IN  IF skill_lower \in AliasKeys THEN AliasValue(skill_lower)
        ELSE IF \E p \in known_lower : skill_lower = p[1]
             THEN (CHOOSE p \in known_lower : skill_lower = p[1])[2]
             ELSE title(strip(s))

\* SkillDatabase.normalize
normalize(s) ==
    LET skill_lower == strip(lower(s))
    IN  IF skill_lower \in AliasKeys THEN AliasValue(skill_lower)
        ELSE IF \E p \in known_lower : skill_lower = p[1]
             THEN (CHOOSE p \in known_lower : skill_lower = p[1])[2]
             ELSE title(strip(s))

\* SkillDatabase.get_category on the category sets cats: the first category,
\* in dict order, whose set holds the normalized name
get_category_in(cats, s) ==
    LET n == normalize(s)
        hits == {i \in 1..Len(cats) : n \in cats[i][2]}
    IN  IF hits = {} THEN None
        ELSE cats[CHOOSE i \in hits : \A j \in hits : i <= j][1]

\* SkillDatabase.get_category on the category sets as constructed
get_category(s) == get_category_in(_categories, s)

\* get_related_skills as it would be without the copy: the set of the
\* category itself is handed out
get_related_skills_shared(cats, s) ==
    LET c == get_category_in(cats, s)
    IN  IF c # None
        THEN [object |-> c, members |-> cats[CHOOSE i \in 1..Len(cats) : cats[i][1] = c][2]]
        ELSE [object |-> "new", members |-> {}]

\* SkillDatabase.get_related_skills: a new set object with the members of the
\* category of the skill, or a new empty set
get_related_skills(cats, s) ==
    LET c == get_category_in(cats, s)
    IN  IF c # None
        THEN [object |-> "new", members |-> cats[CHOOSE i \in 1..Len(cats) : cats[i][1] = c][2]]
        ELSE [object |-> "new", members |-> {}]

CategoryNames == {_categories[i][1] : i \in 1..Len(_categories)}
CategorySet(c) == _categories[CHOOSE i \in 1..Len(_categories) : _categories[i][1] = c][2]

\* a component no call is made on; the taxonomy is there all the same
DbIdle ==
    /\ skill = ""
    /\ db_pc = "idle"
    /\ normalized = None
    /\ renormalized = None
    /\ category = None
    /\ categories = SKILL_CATEGORIES
    /\ related = None

(***************************************************************************)
(* The arguments normalize and get_category are called with.               *)
(***************************************************************************)
MaxTermLen == 3

\* the characters unknown terms are drawn from
TermChars == {"a", "B", " ", ".", "^"}

RECURSIVE Terms(_)
Terms(n) ==
    IF n = 0 THEN {""}
    ELSE LET shorter == Terms(n - 1)
         IN  shorter \cup {t \o c : t \in {u \in shorter : Len(u) = n - 1}, c \in TermChars}

\* s with the case of its i-th character swapped
FlipAt(s, i) ==
    LET c == At(s, i)
    IN  SubSeq(s, 1, i - 1)
        \o (IF IsLower(c) THEN upper_char(c) ELSE lower_char(c))
        \o SubSeq(s, i + 1, Len(s))

\* upper/lower-case variants of a: all lower, all upper, and each of the two
\* with one character swapped
CaseVariants(a) ==
    LET lo == a
        up == upper(a)
    IN  {lo, up} \cup {FlipAt(lo, i) : i \in 1..Len(a)} \cup {FlipAt(up, i) : i \in 1..Len(a)}

\* (variant, canonical) for every pair of SKILL_ALIASES and every variant
AliasVariantPairs ==
    UNION {{<<v, SKILL_ALIASES[i][2]>> : v \in CaseVariants(SKILL_ALIASES[i][1])} :
              i \in 1..Len(SKILL_ALIASES)}

AliasInputs == {p[1] : p \in AliasVariantPairs}

Padded(S) == {" " \o s : s \in S} \cup {s \o " \n" : s \in S}

NormalizeInputs ==
    AliasInputs \cup _all_skills \cup {upper(k) : k \in _all_skills}
        \cup Terms(MaxTermLen) \cup Padded(AliasKeys \cup _all_skills)

(***************************************************************************)
(* Regular expressions.  An offset is the number of characters before a    *)
(* position, as in Python.  Each matcher maps a set P of offsets where a   *)
(* match of the preceding part of a pattern may end to the set of offsets  *)
(* where a match of that part followed by this one may end, so that a      *)
(* pattern matches somewhere in s iff its last set is not empty.           *)
(***************************************************************************)
Offsets(s) == 0..Len(s)

\* s[p:].startswith(w)
StartsWithAt(s, p, w) == p + Len(w) <= Len(s) /\ SubSeq(s, p + 1, p + Len(w)) = w

\* a literal
m_lit(s, P, w) == {p + Len(w) : p \in {q \in P : StartsWithAt(s, q, w)}}

\* (?:w1|w2|...)
m_any(s, P, W) == UNION {m_lit(s, P, w) : w \in W}

\* where the longest run of characters of the class C from offset p ends
run_end(s, p, C) ==
    CHOOSE q \in p..Len(s) :
        /\ q = Len(s) \/ At(s, q + 1) \notin C
        /\ \A i \in (p + 1)..q : At(s, i) \in C

\* a run of characters of the class C from an offset of P: every offset the
\* run can end at, the empty run included
m_run0(s, P, C) == UNION {p..run_end(s, p, C) : p \in P}

\* the same, but for the empty run
m_run1(s, P, C) == UNION {(p + 1)..run_end(s, p, C) : p \in P}

\* \s* and \s+
m_spaces0(s, P) == m_run0(s, P, SpaceSet)
m_spaces1(s, P) == m_run1(s, P, SpaceSet)

\* \d* and \d+
m_digits0(s, P) == m_run0(s, P, DigitSet)
m_digits1(s, P) == m_run1(s, P, DigitSet)

\* where the line of offset p ends
line_end(s, p) ==
    CHOOSE q \in p..Len(s) :
        /\ q = Len(s) \/ At(s, q + 1) = "\n"
        /\ \A i \in (p + 1)..q : At(s, i) # "\n"

\* .* (any characters but a line break)
m_dots0(s, P) == UNION {p..line_end(s, p) : p \in P}

\* \w for the characters of the model: letters, digits, underscore, U+0130
IsWordChar(c) == IsLower(c) \/ IsUpper(c) \/ IsDigit(c) \/ c = "_"

\* \b at offset p
word_boundary(s, p) ==
    (p > 0 /\ IsWordChar(At(s, p))) # (p < Len(s) /\ IsWordChar(At(s, p + 1)))

\* len(re.escape(w)): one more for each character re.escape quotes
EscapedChars == {" ", ".", "+", "#", "-", "\n", "\t", "&", "(", ")", "|", "?", "*", "$"}
escaped_len(w) == Len(w) + Cardinality({i \in 1..Len(w) : At(w, i) \in EscapedChars})

(***************************************************************************)
(* skill_extractor.py: class SkillExtractor.                               *)
(***************************************************************************)
\* (?:in|with)\s+{skill}, the tail shared by several patterns
m_in_with_skill(s, P, sk) == m_lit(s, m_spaces1(s, m_any(s, P, {"in", "with"})), sk)

\* (?:of\s+)?(?:experience\s+)?(?:in|with)\s+{skill}
m_of_experience_skill(s, P, sk) ==
    LET a == P \cup m_spaces1(s, m_lit(s, P, "of"))
        b == a \cup m_spaces1(s, m_lit(s, a, "experience"))
    IN  m_in_with_skill(s, b, sk)

\* \d+\+?\s*years?|[5-9]\d*\s*years?
m_any_years(s, P) ==
    LET d == m_digits1(s, P)
        plus == d \cup m_lit(s, d, "+")
        y1 == m_lit(s, m_spaces0(s, plus), "year")
        five == m_digits0(s, m_any(s, P, {"5", "6", "7", "8", "9"}))
        y2 == m_lit(s, m_spaces0(s, five), "year")
        y == y1 \cup y2
    IN  y \cup m_lit(s, y, "s")

\* [2-4]\s*years?
m_two_to_four_years(s, P) ==
    LET y == m_lit(s, m_spaces0(s, m_any(s, P, {"2", "3", "4"})), "year")
    IN  y \cup m_lit(s, y, "s")

\* EXPERT_PATTERNS[0..3] with {skill} replaced by sk, searched in s
expert_pattern_1(s, sk) ==
    LET a == m_spaces1(s, m_any(s, Offsets(s), {"expert", "advanced", "senior", "lead", "architect"}))
        b == a \cup m_any(s, a, {"in", "with", "level"})
    IN  m_lit(s, m_spaces0(s, b), sk) # {}
expert_pattern_2(s, sk) ==
    m_any(s, m_spaces1(s, m_lit(s, Offsets(s), sk)), {"expert", "architect", "lead"}) # {}
expert_pattern_3(s, sk) ==
    LET a == m_spaces1(s, m_any(s, Offsets(s), {"deep", "extensive", "strong"}))
        b == m_spaces1(s, m_any(s, a, {"experience", "expertise", "knowledge"}))
    IN  m_in_with_skill(s, b, sk) # {}
expert_pattern_4(s, sk) ==
    m_of_experience_skill(s, m_spaces1(s, m_any_years(s, Offsets(s))), sk) # {}

\* PROFICIENT_PATTERNS[0..4]
proficient_pattern_1(s, sk) ==
    m_in_with_skill(s, m_spaces1(s, m_any(s, Offsets(s), {"proficient", "experienced", "skilled"})), sk) # {}
proficient_pattern_2(s, sk) ==
    m_any(s, m_spaces1(s, m_lit(s, Offsets(s), sk)), {"developer", "engineer", "specialist"}) # {}
proficient_pattern_3(s, sk) ==
    LET a == m_spaces1(s, m_any(s, Offsets(s), {"worked", "working"}))
        b == a \cup m_spaces1(s, m_lit(s, a, "extensively"))
    IN  m_lit(s, m_spaces1(s, m_any(s, b, {"with", "on"})), sk) # {}
proficient_pattern_4(s, sk) ==
    m_of_experience_skill(s, m_spaces1(s, m_two_to_four_years(s, Offsets(s))), sk) # {}
proficient_pattern_5(s, sk) ==
    LET a == m_spaces1(s, m_any(s, Offsets(s), {"built", "developed", "created", "implemented"}))
    IN  m_lit(s, m_dots0(s, a), sk) # {}

\* USED_PATTERNS[0..3]
used_pattern_1(s, sk) ==
    LET a == m_any(s, Offsets(s), {"used", "using"})
                \cup m_lit(s, m_spaces1(s, m_lit(s, Offsets(s), "worked")), "with")
    IN  m_lit(s, m_spaces1(s, a), sk) # {}
used_pattern_2(s, sk) ==
    m_spaces1(s, m_any(s, m_spaces1(s, m_lit(s, Offsets(s), sk)), {"for", "in"})) # {}
used_pattern_3(s, sk) ==
    LET a == m_spaces1(s, m_any(s, Offsets(s), {"experience", "knowledge"}))
    IN  m_lit(s, m_spaces1(s, m_any(s, a, {"in", "with", "of"})), sk) # {}
used_pattern_4(s, sk) ==
    LET a == m_spaces1(s, m_any(s, Offsets(s), {"familiar", "comfortable"}))
    IN  m_lit(s, m_spaces1(s, m_lit(s, a, "with")), sk) # {}

EXPERT_PATTERNS(s, sk) ==
    expert_pattern_1(s, sk) \/ expert_pattern_2(s, sk) \/ expert_pattern_3(s, sk)
        \/ expert_pattern_4(s, sk)
PROFICIENT_PATTERNS(s, sk) ==
    proficient_pattern_1(s, sk) \/ proficient_pattern_2(s, sk) \/ proficient_pattern_3(s, sk)
        \/ proficient_pattern_4(s, sk) \/ proficient_pattern_5(s, sk)
USED_PATTERNS(s, sk) ==
    used_pattern_1(s, sk) \/ used_pattern_2(s, sk) \/ used_pattern_3(s, sk)
        \/ used_pattern_4(s, sk)

\* int(s) for a string of digits
RECURSIVE to_int(_)
to_int(s) ==
    IF s = "" THEN 0
    ELSE 10 * to_int(SubSeq(s, 1, Len(s) - 1))
            + (LetterIndex(DigitChars, At(s, Len(s))) - 1)

\* _extract_years: the number of the leftmost match of (\d+)\+?\s*years? in the
\* lowered context, 0 without a match.  The float of the code is a whole number.
_extract_years(context) ==
    LET s == lower(context)
        \* offsets where (\d+)\+?\s*years? matches
        starts == {p \in Offsets(s) :
                     LET d == m_digits1(s, {p})
                     IN  m_lit(s, m_spaces0(s, d \cup m_lit(s, d, "+")), "year") # {}}
    IN  IF starts = {} THEN 0
        ELSE LET p == CHOOSE q \in starts : \A r \in starts : q <= r
                 \* \d+ is greedy: group 1 is the longest run of digits that
                 \* still lets the rest match
                 ends == {e \in m_digits1(s, {p}) :
                             m_lit(s, m_spaces0(s, {e} \cup m_lit(s, {e}, "+")), "year") # {}}
             IN  to_int(SubSeq(s, p + 1, CHOOSE e \in ends : \A f \in ends : f <= e))

\* _detect_experience_level with the used tier tried before the proficient one
detect_level_used_first(context, sk) ==
    LET context_lower == lower(context)
        skill_pattern == lower(sk)
        years == _extract_years(context)
    IN  IF EXPERT_PATTERNS(context_lower, skill_pattern)
        THEN <<"expert", IF years > 0 THEN years ELSE 5>>
        ELSE IF USED_PATTERNS(context_lower, skill_pattern)
        THEN <<"used", IF years > 0 THEN years ELSE 1>>
        ELSE IF PROFICIENT_PATTERNS(context_lower, skill_pattern)
        THEN <<"proficient", IF years > 0 THEN years ELSE 3>>
        ELSE <<"mentioned", 0>>

\* _detect_experience_level: (level, estimated years)
_detect_experience_level(context, sk) ==
    LET context_lower == lower(context)
        skill_pattern == lower(sk)
        years == _extract_years(context)
    IN  IF EXPERT_PATTERNS(context_lower, skill_pattern)
        THEN <<"expert", IF years > 0 THEN years ELSE 5>>
        ELSE IF PROFICIENT_PATTERNS(context_lower, skill_pattern)
        THEN <<"proficient", IF years > 0 THEN years ELSE 3>>
        ELSE IF USED_PATTERNS(context_lower, skill_pattern)
        THEN <<"used", IF years > 0 THEN years ELSE 1>>
        ELSE <<"mentioned", 0>>

\* _compile_patterns: the alternatives of _skill_pattern, every alias and every
\* lowered known skill
skill_alternatives == AliasKeys \cup {p[1] : p \in known_lower}

\* the alternatives by their first character
alternatives_from == {<<At(w, 1), w>> : w \in skill_alternatives}

\* the match attempt as it would be if the alternatives were sorted with the
\* shortest first
skill_match_at_shortest_first(s, p) ==
    IF ~word_boundary(s, p) THEN None
    ELSE LET c == At(s, p + 1)
             found == {w \in {a[2] : a \in {b \in alternatives_from : b[1] = c}} :
                          StartsWithAt(s, p, w) /\ word_boundary(s, p + Len(w))}
         IN  IF found = {} THEN None
             ELSE CHOOSE w \in found : \A v \in found : escaped_len(v) >= escaped_len(w)

\* one match attempt of \b(alt1|alt2|...)\b at offset p: the alternatives are
\* tried in the order of sorted(key=len, reverse=True) over the escaped
\* alternatives, so the first that matches is the one of greatest escaped length
skill_match_at(s, p) ==
    IF ~word_boundary(s, p) THEN None
    ELSE LET c == At(s, p + 1)
             found == {w \in {a[2] : a \in {b \in alternatives_from : b[1] = c}} :
                          StartsWithAt(s, p, w) /\ word_boundary(s, p + Len(w))}
         IN  IF found = {} THEN None
             ELSE CHOOSE w \in found : \A v \in found : escaped_len(v) <= escaped_len(w)

\* findall as it would be if it listed the matches from right to left
RECURSIVE findall_skills_right_to_left(_, _)
findall_skills_right_to_left(s, p) ==
    LET starts == {q \in p..(Len(s) - 1) : skill_match_at(s, q) # None}
    IN  IF starts = {} THEN <<>>
        ELSE LET q == CHOOSE a \in starts : \A b \in starts : a <= b
                 m == skill_match_at(s, q)
             IN  findall_skills_right_to_left(s, q + Len(m)) \o <<m>>

\* self._skill_pattern.findall(s), scanning from offset p: the leftmost match
\* at or after p, then the matches after its end
RECURSIVE findall_skills(_, _)
findall_skills(s, p) ==
    LET starts == {q \in p..(Len(s) - 1) : skill_match_at(s, q) # None}
    IN  IF starts = {} THEN <<>>
        ELSE LET q == CHOOSE a \in starts : \A b \in starts : a <= b
                 m == skill_match_at(s, q)
             IN  <<m>> \o findall_skills(s, q + Len(m))

\* the members of a set of numbers in increasing order
Ascending(S) ==
    [k \in 1..Cardinality(S) |-> CHOOSE x \in S : Cardinality({y \in S : y <= x}) = k]

\* the pieces of s between the characters of seps (an empty piece between two
\* adjacent ones)
split_at(s, seps) ==
    LET cuts == Ascending({0, Len(s) + 1} \cup {i \in 1..Len(s) : At(s, i) \in seps})
    IN  [k \in 1..(Len(cuts) - 1) |-> SubSeq(s, cuts[k] + 1, cuts[k + 1] - 1)]

\* [p.strip() for p in pieces if p.strip()]
strip_nonempty(pieces) ==
    LET kept == SelectSeq(pieces, LAMBDA x : strip(x) # "")
    IN  [k \in 1..Len(kept) |-> strip(kept[k])]

\* _split_sentences: re.split(r'[.!?\n]+', text), stripped, empty ones dropped
_split_sentences(t) == strip_nonempty(split_at(t, {".", "!", "?", "\n"}))

\* the test as it would be if the name were looked up without lowering it
already_seen_unlowered(name, seen) == name \in seen

\* the test of extract_skills that skips a skill already seen
already_seen(name, seen) == lower(name) \in seen

\* ExtractedSkill(...) as extract_skills builds it
ExtractedSkill(match, sentence) ==
    LET norm == normalize(match)
        lv == _detect_experience_level(sentence, match)
        cat == get_category(norm)
    IN  [name |-> match,
         normalized_name |-> norm,
         category |-> IF cat = None THEN "other" ELSE cat,
         experience_level |-> lv[1],
         context |-> strip(sentence),
         years |-> lv[2]]

(***************************************************************************)
(* The texts extract_skills is called with.                                *)
(***************************************************************************)
MaxSentences == 2

\* skill mentions: Python under three names, and other skills
SkillTerms == {"Python", "py", "React", "Spring Boot"}

\* what may stand before a mention
LevelPhrases ==
    {"", "used ", "proficient in ", "5+ years with ", "expert in ", "familiar with ",
     "2 years with ", "3 years of experience with ", "4 years in ",
     "10 years of experience in "}

\* what may follow a mention
Tails == {"", " developer", " at a firm founded 20 years ago"}

OneMentionTexts == {p \o k \o t : p \in LevelPhrases, k \in SkillTerms, t \in Tails}

\* the four phrasings of the level templates
TemplatePhrases == {"", "used ", "proficient in ", "5+ years with "}

\* one sentence that mentions a skill twice, in two phrasings
TwoPhraseTexts ==
    {p \o k \o " and " \o q \o k : p \in TemplatePhrases, q \in TemplatePhrases,
                                   k \in {"Python", "React"}}

\* sentences of the texts of several sentences
ShortSentences == {"Python", "expert in py", "used python3 and React", "Spring Boot and Spring"}

\* texts of 1..n of them
RECURSIVE JoinedTexts(_)
JoinedTexts(n) ==
    IF n <= 1 THEN ShortSentences
    ELSE JoinedTexts(n - 1)
            \cup {t \o sep \o s : t \in JoinedTexts(n - 1), sep \in {". ", "\n"},
                                  s \in ShortSentences}

\* the alternatives of several words
MultiWordAlternatives == {w \in skill_alternatives : " " \in CharsOf(w)}

\* the alternatives that stand inside w between word boundaries
PartsOf(w) ==
    {v \in skill_alternatives \ {w} :
        \E p \in 0..(Len(w) - Len(v)) :
            /\ StartsWithAt(w, p, v)
            /\ word_boundary(w, p)
            /\ word_boundary(w, p + Len(v))}

\* the alternatives of several words that hold another alternative
CompoundSkills == {w \in MultiWordAlternatives : PartsOf(w) # {}}

\* a compound skill alone, in a sentence, followed by one of its parts, and
\* after a sentence that holds the part
CompoundTexts ==
    CompoundSkills
    \cup {"used " \o title(w) \o " daily" : w \in CompoundSkills}
    \cup UNION {{w \o " and " \o v, v \o ". " \o w} : <<w, v>> \in
                    {x \in CompoundSkills \X skill_alternatives : x[2] \in PartsOf(x[1])}}

ExtractTexts ==
    OneMentionTexts \cup TwoPhraseTexts \cup AliasKeys \cup JoinedTexts(MaxSentences)
        \cup CompoundTexts

(***************************************************************************)
(* SkillExtractor.extract_skills, one step of its loops at a time.         *)
(***************************************************************************)
ExInit ==
    /\ text \in ExtractTexts
    /\ ex_pc = "call"
    /\ sentences = <<>>
    /\ matches = <<>>
    /\ seen_skills = {}
    /\ skills = <<>>
    /\ ex_call = 1
    /\ first_skills = <<>>
    /\ DbIdle
    /\ EdIdle
    /\ DpIdle

\* skills = [], seen_skills = set(), sentences = self._split_sentences(text)
SplitSentences ==
    /\ ex_pc = "call"
    /\ skills' = <<>>
    /\ seen_skills' = {}
    /\ sentences' = _split_sentences(text)
    /\ ex_pc' = "sentence"
    /\ UNCHANGED <<text, matches, ex_call, first_skills>>
    /\ UNCHANGED <<db_vars, ed_vars, dp_vars>>

\* for sentence in sentences: matches = findall(sentence_lower)
NextSentence ==
    /\ ex_pc = "sentence"
    /\ sentences # <<>>
    /\ matches' = findall_skills(lower(sentences[1]), 0)
    /\ ex_pc' = "match"
    /\ UNCHANGED <<text, sentences, seen_skills, skills, ex_call, first_skills>>
    /\ UNCHANGED <<db_vars, ed_vars, dp_vars>>

\* the step as it would be if a skill seen before took the record of its
\* latest mention
SkipSeenLastWins ==
    /\ ex_pc = "match"
    /\ matches # <<>>
    /\ already_seen(normalize(matches[1]), seen_skills)
    /\ skills' = [i \in 1..Len(skills) |->
                      IF lower(skills[i].normalized_name) = lower(normalize(matches[1]))
                      THEN ExtractedSkill(matches[1], sentences[1])
                      ELSE skills[i]]
    /\ matches' = Tail(matches)
    /\ UNCHANGED <<text, ex_pc, sentences, seen_skills, ex_call, first_skills>>
    /\ UNCHANGED <<db_vars, ed_vars, dp_vars>>

\* for match in matches: a skill seen before is skipped
SkipSeen ==
    /\ ex_pc = "match"
    /\ matches # <<>>
    /\ already_seen(normalize(matches[1]), seen_skills)
    /\ matches' = Tail(matches)
    /\ UNCHANGED <<text, ex_pc, sentences, seen_skills, skills, ex_call, first_skills>>
    /\ UNCHANGED <<db_vars, ed_vars, dp_vars>>

\* for match in matches: a new skill is recorded
AppendSkill ==
    /\ ex_pc = "match"
    /\ matches # <<>>
    /\ ~already_seen(normalize(matches[1]), seen_skills)
    /\ seen_skills' = seen_skills \cup {lower(normalize(matches[1]))}
    /\ skills' = Append(skills, ExtractedSkill(matches[1], sentences[1]))
    /\ matches' = Tail(matches)
    /\ UNCHANGED <<text, ex_pc, sentences, ex_call, first_skills>>
    /\ UNCHANGED <<db_vars, ed_vars, dp_vars>>

\* the matches of the sentence are exhausted
EndSentence ==
    /\ ex_pc = "match"
    /\ matches = <<>>
    /\ sentences' = Tail(sentences)
    /\ ex_pc' = "sentence"
    /\ UNCHANGED <<text, matches, seen_skills, skills, ex_call, first_skills>>
    /\ UNCHANGED <<db_vars, ed_vars, dp_vars>>

\* return skills
ReturnSkills ==
    /\ ex_pc = "sentence"
    /\ sentences = <<>>
    /\ ex_pc' = "done"
    /\ UNCHANGED <<text, sentences, matches, seen_skills, skills, ex_call, first_skills>>
    /\ UNCHANGED <<db_vars, ed_vars, dp_vars>>

\* the caller keeps the list and calls extract_skills again on the same text
ExtractAgain ==
    /\ ex_pc = "done"
    /\ ex_call = 1
    /\ first_skills' = skills
    /\ ex_call' = 2
    /\ ex_pc' = "call"
    /\ UNCHANGED <<text, sentences, matches, seen_skills, skills>>
    /\ UNCHANGED <<db_vars, ed_vars, dp_vars>>

ExNext ==
    \/ SplitSentences
    \/ NextSentence
    \/ SkipSeen
    \/ AppendSkill
    \/ EndSentence
    \/ ReturnSkills
    \/ ExtractAgain

(***************************************************************************)
(* SkillDatabase: one call sequence on one argument.                       *)
(***************************************************************************)
DbInit ==
    /\ skill \in NormalizeInputs
    /\ db_pc = "start"
    /\ normalized = None
    /\ renormalized = None
    /\ category = None
    /\ categories = SKILL_CATEGORIES
    /\ related = None
    /\ ExIdle
    /\ EdIdle
    /\ DpIdle

\* normalized = db.normalize(skill)
Normalize ==
    /\ db_pc = "start"
    /\ normalized' = normalize(skill)
    /\ db_pc' = "normalized"
    /\ UNCHANGED <<skill, renormalized, category, categories, related>>
    /\ UNCHANGED <<ex_vars, ed_vars, dp_vars>>

\* db.normalize applied to its own result
NormalizeAgain ==
    /\ db_pc = "normalized"
    /\ renormalized' = normalize(normalized)
    /\ db_pc' = "renormalized"
    /\ UNCHANGED <<skill, normalized, category, categories, related>>
    /\ UNCHANGED <<ex_vars, ed_vars, dp_vars>>

\* category = db.get_category(skill)
GetCategory ==
    /\ db_pc = "renormalized"
    /\ category' = get_category_in(categories, skill)
    /\ db_pc' = "categorized"
    /\ UNCHANGED <<skill, normalized, renormalized, categories, related>>
    /\ UNCHANGED <<ex_vars, ed_vars, dp_vars>>

DbNext == Normalize \/ NormalizeAgain \/ GetCategory

\* related = db.get_related_skills(skill)
GetRelatedSkills ==
    /\ db_pc = "categorized"
    /\ related' = get_related_skills(categories, skill)
    /\ db_pc' = "related"
    /\ UNCHANGED <<skill, normalized, renormalized, category, categories>>
    /\ UNCHANGED <<ex_vars, ed_vars, dp_vars>>

\* the caller adds a name to the set it was handed; a set object that is the
\* set of a category changes for every SkillDatabase
CallerAdds ==
    /\ db_pc = "related"
    /\ related' = [related EXCEPT !.members = @ \cup {"Caller Skill"}]
    /\ categories' = [i \in 1..Len(categories) |->
                          IF categories[i][1] = related.object
                          THEN <<categories[i][1], categories[i][2] \cup {"Caller Skill"}>>
                          ELSE categories[i]]
    /\ db_pc' = "added"
    /\ UNCHANGED <<skill, normalized, renormalized, category>>
    /\ UNCHANGED <<ex_vars, ed_vars, dp_vars>>

(***************************************************************************)
(* experience_detector.py: class ExperienceDetector.                       *)
(***************************************************************************)
\* the least and the greatest member of a non-empty set of numbers
Least(S) == CHOOSE x \in S : \A y \in S : x <= y
Greatest(S) == CHOOSE x \in S : \A y \in S : y <= x

\* A section header pattern as <<optional first word, word, second word,
\* optional plural>>: (?:first\s+)?word(?:\s+second)?s?, "" for a part the
\* pattern does not have.
EXPERIENCE_HEADERS ==
    << <<"work", "experience", "", FALSE>>,
       <<"", "employment", "history", FALSE>>,
       <<"", "professional", "experience", FALSE>>,
       <<"", "career", "history", FALSE>>,
       <<"", "work", "history", FALSE>> >>

PROJECT_HEADERS ==
    << <<"", "project", "", TRUE>>,
       <<"", "personal", "project", TRUE>>,
       <<"", "side", "project", TRUE>>,
       <<"", "portfolio", "", FALSE>>,
       <<"", "notable", "project", TRUE>> >>

\* one header pattern
m_header(s, P, h) ==
    LET a == IF h[1] = "" THEN P ELSE P \cup m_spaces1(s, m_lit(s, P, h[1]))
        b == m_lit(s, a, h[2])
        c == IF h[3] = "" THEN b ELSE m_lit(s, m_spaces1(s, b), h[3])
    IN  IF h[4] THEN c \cup m_lit(s, c, "s") ELSE c

\* where a match of \n\s*({header})\s*[:\n] that starts at offset p may end
header_ends(s, p, h) ==
    m_any(s, m_spaces0(s, m_header(s, m_spaces0(s, m_lit(s, {p}, "\n")), h)), {":", "\n"})

\* the words of the next-major-section pattern
MajorSections == {"education", "skills", "certif", "awards", "reference", "contact"}

\* the offsets where a line break stands
Newlines(s) == {p \in 0..(Len(s) - 1) : At(s, p + 1) = "\n"}

\* offsets at or after start where \n\s*(?:education|...) matches
major_starts(s, start) ==
    {q \in Newlines(s) :
        q >= start /\ m_any(s, m_spaces0(s, m_lit(s, {q}, "\n")), MajorSections) # {}}

\* _find_section: the text after the first header of the list that occurs, up
\* to the next major section; None when no header occurs
_find_section(t, headers) ==
    LET text_lower == lower(t)
        nl == Newlines(text_lower)
        found == {i \in 1..Len(headers) :
                     \E p \in nl : header_ends(text_lower, p, headers[i]) # {}}
    IN  IF found = {} THEN None
        ELSE LET header == headers[Least(found)]
                 p == Least({q \in nl : header_ends(text_lower, q, header) # {}})
                 \* \s* is greedy: the match ends as late as it can
                 start == Greatest(header_ends(text_lower, p, header))
                 next_section == major_starts(text_lower, start)
                 end == IF next_section = {} THEN Len(t) ELSE Least(next_section)
             IN  SubSeq(t, start + 1, end)

\* the matches of \n\s*\n in s as <<first offset, end offset>>: from the first
\* to the last line break of each run of whitespace that holds two or more
blank_line_runs(s) ==
    LET nl == Newlines(s)
        black == {i \in 1..Len(s) : ~IsSpace(At(s, i))}
        \* only whitespace stands between the line breaks at p and q
        joined(p, q) == \A i \in black : i <= p \/ i > q
        firsts == {a \in nl : \A b \in nl : b < a => ~joined(b, a)}
    IN  {<<p, Greatest({q \in nl : q > p /\ joined(p, q)}) + 1>> :
            p \in {a \in firsts : \E q \in nl : q > a /\ joined(a, q)}}

\* re.split(r'\n\s*\n', s)
split_blank_lines(s) ==
    LET runs == blank_line_runs(s)
        from == Ascending({0} \cup {r[2] : r \in runs})
        to == Ascending({Len(s)} \cup {r[1] : r \in runs})
    IN  [k \in 1..Len(from) |-> SubSeq(s, from[k] + 1, to[k])]

\* the shortest entry that is kept is one character longer than this
NoiseLength == 20

\* _split_into_entries
_split_into_entries(section) ==
    LET kept == SelectSeq(split_blank_lines(section), LAMBDA e : Len(strip(e)) > NoiseLength)
    IN  [k \in 1..Len(kept) |-> strip(kept[k])]

\* entry.split('\n')
split_lines(entry) == split_at(entry, {"\n"})

\* s[:n]
slice_to(s, n) == SubSeq(s, 1, IF n < Len(s) THEN n ELSE Len(s))

\* re.IGNORECASE compares characters by their simple lower case, one
\* character for one: U+0130 compares as "i"
ignore_case_char(c) == IF c = "^" THEN "i" ELSE lower_char(c)
ignore_case(s) == join_range([i \in 1..Len(s) |-> ignore_case_char(At(s, i))], 1, Len(s))

\* TITLE_PATTERNS[0], from the offsets P
m_title(s, P) ==
    LET a == P \cup m_any(s, P, {"senior", "junior", "lead", "principal", "staff", "associate"})
        b == m_spaces0(s, a)
        full == m_lit(s, b, "full")
        c == b \cup m_any(s, b, {"software", "backend", "frontend", "web", "mobile", "devops",
                                 "data", "ml", "ai"})
               \cup m_lit(s, full \cup m_any(s, full, {" ", "\t", "\n", "-"}), "stack")
    IN  m_any(s, m_spaces0(s, c), {"engineer", "developer", "programmer", "architect",
                                    "analyst", "scientist", "manager", "director"})

\* _extract_title: the leftmost match of the title pattern in the line,
\* stripped and title-cased, else the stripped line when it is under 100
\* characters, else None
_extract_title(line) ==
    LET s == ignore_case(line)
        starts == {p \in Offsets(s) : m_title(s, {p}) # {}}
    IN  IF starts # {}
        THEN LET p == Least(starts)
             IN  title(strip(SubSeq(line, p + 1, Greatest(m_title(s, {p})))))
        ELSE IF Len(strip(line)) < 100 THEN slice_to(strip(line), 100) ELSE None

\* [a-zA-Z0-9\s&.]
CompanyChars == LowerSet \cup UpperSet \cup DigitSet \cup SpaceSet \cup {"&", "."}

\* the end of the longest run of company characters from offset p
company_run_end(s, p) == run_end(s, p, CompanyChars)

\* _extract_company
_extract_company(entry) ==
    LET capital(p) == p < Len(entry) /\ At(entry, p + 1) \in UpperSet
        \* a capital and at least one more company character from offset p
        named(p) == capital(p) /\ p + 2 <= Len(entry) /\ At(entry, p + 2) \in CompanyChars
        \* (?:at|@)\s+([A-Z][a-zA-Z0-9\s&.]+): offsets where group 1 may start
        at_starts == {q \in m_spaces1(entry, m_any(entry, Offsets(entry), {"at", "@"})) :
                         named(q)}
        \* ([A-Z][a-zA-Z0-9\s&.]+)\s*[-|]\s*(?:senior|junior|lead|software)
        dash_starts ==
            {q \in Offsets(entry) :
                /\ named(q)
                /\ m_any(entry,
                         m_spaces0(entry, m_any(entry, {company_run_end(entry, q)}, {"-", "|"})),
                         {"senior", "junior", "lead", "software"}) # {}}
    IN  IF at_starts # {}
        THEN \* the leftmost match: \s+ gives back no space, a capital follows it
             strip(SubSeq(entry, Least(at_starts) + 1, company_run_end(entry, Least(at_starts))))
        ELSE IF dash_starts # {}
        THEN strip(SubSeq(entry, Least(dash_starts) + 1,
                          company_run_end(entry, Least(dash_starts))))
        ELSE None

\* str(n) for n >= 0
RECURSIVE to_str(_)
to_str(n) ==
    IF n < 10 THEN At(DigitChars, n + 1)
    ELSE to_str(n \div 10) \o At(DigitChars, (n % 10) + 1)

\* \d{4}
m_four_digits(s, P) ==
    {p + 4 : p \in {q \in P : q + 4 <= Len(s) /\ \A i \in (q + 1)..(q + 4) : IsDigit(At(s, i))}}

\* [-–to]+ ; "=" stands for U+2013, the en dash
RangeChars == {"-", "=", "t", "o"}
m_range_chars1(s, P) == m_run1(s, P, RangeChars)

\* [a-z]*
m_letters0(s, P) == m_run0(s, P, LowerSet)

\* the offsets where group 2 of the year range pattern may start, for a match
\* that starts at offset p: after (\d{4})\s*[-–to]+\s*
range_end_starts(s, p) ==
    {q \in m_spaces0(s, m_range_chars1(s, m_spaces0(s, m_four_digits(s, {p})))) :
        m_four_digits(s, {q}) \cup m_any(s, {q}, {"present", "current", "now"}) # {}}

MonthNames ==
    <<"jan", "feb", "mar", "apr", "may", "jun", "jul", "aug", "sep", "oct", "nov", "dec">>
MonthSet == {MonthNames[i] : i \in 1..Len(MonthNames)}

\* the months dictionary of _extract_dates
months(name) == CHOOSE i \in 1..Len(MonthNames) : MonthNames[i] = name

\* where a match of (jan|...|dec)[a-z]*\.?\s*(\d{4}) that starts at p ends
month_year_ends(s, p) ==
    LET a == m_letters0(s, m_any(s, {p}, MonthSet))
    IN  m_four_digits(s, m_spaces0(s, a \cup m_lit(s, a, ".")))

\* the first match of the month-year pattern at or after offset p, as
\* <<month, year, end offset>>; None without one
next_month_year(s, p) ==
    LET starts == {q \in p..Len(s) : month_year_ends(s, q) # {}}
    IN  IF starts = {} THEN None
        ELSE LET q == Least(starts)
                 e == Greatest(month_year_ends(s, q))
             IN  <<SubSeq(s, q + 1, q + 3), SubSeq(s, e - 3, e), e>>

\* _extract_dates as it would be if an explicit end year took the month of
\* the clock as well
extract_dates_clock_month(entry, now_year, now_month) ==
    LET entry_lower == lower(entry)
        range_starts == {p \in Offsets(entry_lower) : range_end_starts(entry_lower, p) # {}}
    IN  IF range_starts # {}
        THEN LET p == Least(range_starts)
                 q == Greatest(range_end_starts(entry_lower, p))
                 start_year == to_int(SubSeq(entry_lower, p + 1, p + 4))
                 end_str == IF m_four_digits(entry_lower, {q}) # {}
                            THEN SubSeq(entry_lower, q + 1, q + 4)
                            ELSE CHOOSE w \in {"present", "current", "now"} :
                                     StartsWithAt(entry_lower, q, w)
                 end_year == IF end_str \in {"present", "current", "now"}
                             THEN now_year ELSE to_int(end_str)
                 duration == (end_year - start_year) * 12 + (now_month - 6)
             IN  <<to_str(start_year), end_str, IF duration > 1 THEN duration ELSE 1>>
        ELSE <<None, None, 12>>

\* _extract_dates as it would be without the floor of one month
extract_dates_no_floor(entry, now_year, now_month) ==
    LET entry_lower == lower(entry)
        range_starts == {p \in Offsets(entry_lower) : range_end_starts(entry_lower, p) # {}}
        first == next_month_year(entry_lower, 0)
        second == IF first = None THEN None ELSE next_month_year(entry_lower, first[3])
    IN  IF range_starts # {}
        THEN LET p == Least(range_starts)
                 q == Greatest(range_end_starts(entry_lower, p))
                 start_year == to_int(SubSeq(entry_lower, p + 1, p + 4))
                 end_str == IF m_four_digits(entry_lower, {q}) # {}
                            THEN SubSeq(entry_lower, q + 1, q + 4)
                            ELSE CHOOSE w \in {"present", "current", "now"} :
                                     StartsWithAt(entry_lower, q, w)
                 current == end_str \in {"present", "current", "now"}
                 end_year == IF current THEN now_year ELSE to_int(end_str)
                 end_month == IF current THEN now_month ELSE 12
                 duration == (end_year - start_year) * 12 + (end_month - 6)
             IN  <<to_str(start_year), end_str, duration>>
        ELSE IF second # None
        THEN LET duration == (to_int(second[2]) - to_int(first[2])) * 12
                                + (months(second[1]) - months(first[1]))
             IN  <<title(first[1]) \o " " \o first[2], title(second[1]) \o " " \o second[2],
                   duration>>
        ELSE <<None, None, 12>>

\* _extract_dates as it would be if the month-year rule were tried before the
\* year range rule
extract_dates_months_first(entry, now_year, now_month) ==
    LET entry_lower == lower(entry)
        range_starts == {p \in Offsets(entry_lower) : range_end_starts(entry_lower, p) # {}}
        first == next_month_year(entry_lower, 0)
        second == IF first = None THEN None ELSE next_month_year(entry_lower, first[3])
    IN  IF second # None
        THEN LET duration == (to_int(second[2]) - to_int(first[2])) * 12
                                + (months(second[1]) - months(first[1]))
             IN  <<title(first[1]) \o " " \o first[2], title(second[1]) \o " " \o second[2],
                   IF duration > 1 THEN duration ELSE 1>>
        ELSE IF range_starts # {}
        THEN LET p == Least(range_starts)
                 q == Greatest(range_end_starts(entry_lower, p))
                 start_year == to_int(SubSeq(entry_lower, p + 1, p + 4))
                 end_str == IF m_four_digits(entry_lower, {q}) # {}
                            THEN SubSeq(entry_lower, q + 1, q + 4)
                            ELSE CHOOSE w \in {"present", "current", "now"} :
                                     StartsWithAt(entry_lower, q, w)
                 current == end_str \in {"present", "current", "now"}
                 end_year == IF current THEN now_year ELSE to_int(end_str)
                 end_month == IF current THEN now_month ELSE 12
                 duration == (end_year - start_year) * 12 + (end_month - 6)
             IN  <<to_str(start_year), end_str, IF duration > 1 THEN duration ELSE 1>>
        ELSE <<None, None, 12>>

\* _extract_dates: <<start date, end date, duration in months>>; now_year and
\* now_month are what datetime.now().year and datetime.now().month return, two
\* readings of the clock
_extract_dates(entry, now_year, now_month) ==
    LET entry_lower == lower(entry)
        range_starts == {p \in Offsets(entry_lower) : range_end_starts(entry_lower, p) # {}}
        first == next_month_year(entry_lower, 0)
        second == IF first = None THEN None ELSE next_month_year(entry_lower, first[3])
    IN  IF range_starts # {}
        THEN LET p == Least(range_starts)
                 q == Greatest(range_end_starts(entry_lower, p))
                 start_year == to_int(SubSeq(entry_lower, p + 1, p + 4))
                 end_str == IF m_four_digits(entry_lower, {q}) # {}
                            THEN SubSeq(entry_lower, q + 1, q + 4)
                            ELSE CHOOSE w \in {"present", "current", "now"} :
                                     StartsWithAt(entry_lower, q, w)
                 current == end_str \in {"present", "current", "now"}
                 end_year == IF current THEN now_year ELSE to_int(end_str)
                 end_month == IF current THEN now_month ELSE 12
                 duration == (end_year - start_year) * 12 + (end_month - 6)
             IN  <<to_str(start_year), end_str, IF duration > 1 THEN duration ELSE 1>>
        ELSE IF second # None
        THEN LET duration == (to_int(second[2]) - to_int(first[2])) * 12
                                + (months(second[1]) - months(first[1]))
             IN  <<title(first[1]) \o " " \o first[2], title(second[1]) \o " " \o second[2],
                   IF duration > 1 THEN duration ELSE 1>>
        ELSE <<None, None, 12>>

\* w in s
contains(s, w) == m_lit(s, Offsets(s), w) # {}

INTERNSHIP_INDICATORS == {"intern", "internship", "trainee", "apprentice"}
FREELANCE_INDICATORS == {"freelance", "consultant", "contractor", "self-employed", "independent"}

\* _parse_experience_entry as it would be if a range that ends in the year of
\* the clock counted as current
parse_experience_entry_open_year(entry, now_year, now_month) ==
    LET lines == split_lines(entry)
        entry_lower == lower(entry)
        found_title == _extract_title(lines[1])
        found_company == _extract_company(entry)
        dates == _extract_dates(entry, now_year, now_month)
    IN  [title |-> IF found_title \in {None, ""} THEN "Unknown Position" ELSE found_title,
         company |-> IF found_company \in {None, ""} THEN "Unknown Company" ELSE found_company,
         duration_months |-> dates[3],
         start_date |-> dates[1],
         end_date |-> dates[2],
         is_current |-> IF dates[2] \notin {None, ""}
                        THEN dates[2] \in {"present", "current", "now", to_str(now_year), None}
                        ELSE TRUE,
         is_internship |-> \E ind \in INTERNSHIP_INDICATORS : contains(entry_lower, ind),
         is_freelance |-> \E ind \in FREELANCE_INDICATORS : contains(entry_lower, ind),
         description |-> entry]

\* _parse_experience_entry as it would be without the placeholders for a
\* title and a company that were not found
parse_experience_entry_no_defaults(entry, now_year, now_month) ==
    LET lines == split_lines(entry)
        entry_lower == lower(entry)
        found_title == _extract_title(lines[1])
        found_company == _extract_company(entry)
        dates == _extract_dates(entry, now_year, now_month)
    IN  [title |-> found_title,
         company |-> found_company,
         duration_months |-> dates[3],
         start_date |-> dates[1],
         end_date |-> dates[2],
         is_current |-> IF dates[2] \notin {None, ""}
                        THEN dates[2] \in {"present", "current", "now", None}
                        ELSE TRUE,
         is_internship |-> \E ind \in INTERNSHIP_INDICATORS : contains(entry_lower, ind),
         is_freelance |-> \E ind \in FREELANCE_INDICATORS : contains(entry_lower, ind),
         description |-> entry]

\* _parse_experience_entry
_parse_experience_entry(entry, now_year, now_month) ==
    LET lines == split_lines(entry)
        entry_lower == lower(entry)
        found_title == _extract_title(lines[1])
        found_company == _extract_company(entry)
        dates == _extract_dates(entry, now_year, now_month)
    IN  [title |-> IF found_title \in {None, ""} THEN "Unknown Position" ELSE found_title,
         company |-> IF found_company \in {None, ""} THEN "Unknown Company" ELSE found_company,
         duration_months |-> dates[3],
         start_date |-> dates[1],
         end_date |-> dates[2],
         is_current |-> IF dates[2] \notin {None, ""}
                        THEN dates[2] \in {"present", "current", "now", None}
                        ELSE TRUE,
         is_internship |-> \E ind \in INTERNSHIP_INDICATORS : contains(entry_lower, ind),
         is_freelance |-> \E ind \in FREELANCE_INDICATORS : contains(entry_lower, ind),
         description |-> entry]

\* the aliases by their first character
aliases_from == {<<At(k, 1), k>> : k \in AliasKeys}

\* the aliases a with re.search(rf'\b{re.escape(a)}\b', entry, re.IGNORECASE)
aliases_in(entry) ==
    LET s == ignore_case(entry)
    IN  UNION {{a[2] : a \in {b \in aliases_from :
                                 /\ b[1] = At(s, p + 1)
                                 /\ StartsWithAt(s, p, b[2])
                                 /\ word_boundary(s, p + Len(b[2]))}} :
                  p \in {q \in 0..(Len(s) - 1) : word_boundary(s, q)}}

PROFESSIONAL_WORDS == {"client", "company", "production", "deployed", "users"}

\* _parse_project_entry; technologies is list(set(techs)), a list in the
\* order of the set, modelled as the set
_parse_project_entry(entry) ==
    LET lines == split_lines(entry)
        entry_lower == lower(entry)
        first_break == {p \in Newlines(entry) : \A q \in Newlines(entry) : p <= q}
    IN  [name |-> slice_to(strip(lines[1]), 100),
         description |-> IF first_break = {} THEN ""
                         ELSE strip(SubSeq(entry, Least(first_break) + 2, Len(entry))),
         technologies |-> {normalize(a) : a \in aliases_in(entry)},
         is_professional |-> \E w \in PROFESSIONAL_WORDS : contains(entry_lower, w)]

\* sum(exp.duration_months for exp in experiences)
RECURSIVE total_months_of(_)
total_months_of(experiences) ==
    IF experiences = <<>> THEN 0
    ELSE experiences[1].duration_months + total_months_of(Tail(experiences))

\* the months counted for each project that mentions a required skill
ProjectCredit == 6

\* _calculate_relevant_experience as it would be if an entry or project were
\* counted once for each required skill it mentions
relevant_experience_per_skill(experiences, projs, required) ==
    LET required_lower == [i \in 1..Len(required) |-> lower(required[i])]
        hits(t) == Cardinality({i \in 1..Len(required_lower) : contains(t, required_lower[i])})
        work == [i \in 1..Len(experiences) |->
                    LET desc_lower == lower(experiences[i].description)
                    IN  hits(desc_lower) * experiences[i].duration_months]
        proj == [i \in 1..Len(projs) |->
                    LET proj_text == lower(projs[i].name \o " " \o projs[i].description)
                    IN  hits(proj_text) * ProjectCredit]
        sum[i \in 0..(Len(work) + Len(proj))] ==
            IF i = 0 THEN 0 ELSE sum[i - 1] + (work \o proj)[i]
    IN  IF required = <<>> THEN total_months_of(experiences)
        ELSE sum[Len(work) + Len(proj)]

\* _calculate_relevant_experience as it would be if it compared the required
\* skills and the descriptions as they are written, without lowering them
relevant_experience_case_sensitive(experiences, projs, required) ==
    LET mentions(t) == \E i \in 1..Len(required) : contains(t, required[i])
        work == [i \in 1..Len(experiences) |->
                    IF mentions(experiences[i].description)
                    THEN experiences[i].duration_months ELSE 0]
        proj == [i \in 1..Len(projs) |->
                    IF mentions(projs[i].name \o " " \o projs[i].description)
                    THEN ProjectCredit ELSE 0]
        sum[i \in 0..(Len(work) + Len(proj))] ==
            IF i = 0 THEN 0 ELSE sum[i - 1] + (work \o proj)[i]
    IN  IF required = <<>> THEN total_months_of(experiences)
        ELSE sum[Len(work) + Len(proj)]

\* _calculate_relevant_experience
_calculate_relevant_experience(experiences, projs, required) ==
    LET required_lower == [i \in 1..Len(required) |-> lower(required[i])]
        mentions(t) == \E i \in 1..Len(required_lower) : contains(t, required_lower[i])
        work == [i \in 1..Len(experiences) |->
                    LET desc_lower == lower(experiences[i].description)
                    IN  IF mentions(desc_lower) THEN experiences[i].duration_months ELSE 0]
        proj == [i \in 1..Len(projs) |->
                    LET proj_text == lower(projs[i].name \o " " \o projs[i].description)
                    IN  IF mentions(proj_text) THEN ProjectCredit ELSE 0]
        sum[i \in 0..(Len(work) + Len(proj))] ==
            IF i = 0 THEN 0 ELSE sum[i - 1] + (work \o proj)[i]
    IN  IF required = <<>> THEN total_months_of(experiences)
        ELSE sum[Len(work) + Len(proj)]

\* _detect_career_gaps: (has gaps, explanation)
_detect_career_gaps(experiences) == <<FALSE, None>>

SENIOR_KEYWORDS == {"senior", "lead", "principal", "staff", "manager", "director", "architect"}

\* _analyze_trajectory as it would be if it compared the first entry with the
\* second and not with the last
analyze_trajectory_first_two(experiences) ==
    LET progression == [i \in 1..Len(experiences) |->
                           \E kw \in SENIOR_KEYWORDS : contains(lower(experiences[i].title), kw)]
    IN  IF Len(experiences) < 2 THEN "insufficient_data"
        ELSE IF \A i \in 1..Len(progression) : progression[i] THEN "lateral_senior"
        ELSE IF progression[2] /\ ~progression[1] THEN "ascending"
        ELSE IF progression[1] /\ ~progression[2] THEN "descending"
        ELSE "mixed"

\* _analyze_trajectory
_analyze_trajectory(experiences) ==
    LET progression == [i \in 1..Len(experiences) |->
                           \E kw \in SENIOR_KEYWORDS : contains(lower(experiences[i].title), kw)]
    IN  IF Len(experiences) < 2 THEN "insufficient_data"
        ELSE IF \A i \in 1..Len(progression) : progression[i] THEN "lateral_senior"
        ELSE IF progression[Len(progression)] /\ ~progression[1] THEN "ascending"
        ELSE IF progression[1] /\ ~progression[Len(progression)] THEN "descending"
        ELSE "mixed"

EXECUTIVE_KEYWORDS == {"director", "vp", "vice president", "cto", "ceo"}
LEAD_KEYWORDS == {"lead", "principal", "staff", "manager"}

\* the body of the loop of _estimate_seniority for one title: the level it
\* returns, None when it returns nothing
title_seniority(t) ==
    LET title_lower == lower(t)
    IN  IF \E kw \in EXECUTIVE_KEYWORDS : contains(title_lower, kw) THEN "executive"
        ELSE IF \E kw \in LEAD_KEYWORDS : contains(title_lower, kw) THEN "lead"
        ELSE IF contains(title_lower, "senior") THEN "senior"
        ELSE None

\* the thresholds of _estimate_seniority, in years
SeniorYears == 8
MidYears == 3

\* _estimate_seniority as it would be if its thresholds were strict
estimate_seniority_strict(experiences, total_months) ==
    LET recent == {i \in 1..Len(experiences) : i <= 2 /\ title_seniority(experiences[i].title) # None}
    IN  IF recent # {} THEN title_seniority(experiences[Least(recent)].title)
        ELSE IF total_months > SeniorYears * 12 THEN "senior"
        ELSE IF total_months > MidYears * 12 THEN "mid"
        ELSE "entry"

\* _estimate_seniority
_estimate_seniority(experiences, total_months) ==
    LET recent == {i \in 1..Len(experiences) : i <= 2 /\ title_seniority(experiences[i].title) # None}
    IN  IF recent # {} THEN title_seniority(experiences[Least(recent)].title)
        \* years = total_months / 12 compared with 8 and 3
        ELSE IF total_months >= SeniorYears * 12 THEN "senior"
        ELSE IF total_months >= MidYears * 12 THEN "mid"
        ELSE "entry"

\* required_skills or []
required_or_empty(r) == IF r = None THEN <<>> ELSE r

\* the ExperienceAnalysis analyze_experience returns
ExperienceAnalysis(work, projs, required) ==
    [total_experience_months |-> total_months_of(work),
     relevant_experience_months |-> _calculate_relevant_experience(work, projs, required),
     work_experiences |-> work,
     projects |-> projs,
     has_career_gaps |-> _detect_career_gaps(work)[1],
     gap_explanation |-> _detect_career_gaps(work)[2],
     experience_trajectory |-> _analyze_trajectory(work),
     seniority_estimate |-> _estimate_seniority(work, total_months_of(work))]


(***************************************************************************)
(* The resumes analyze_experience is called on.                            *)
(***************************************************************************)
\* the most entries, work and project blocks together, a resume of the model
\* holds
MaxEntries == 2

\* the most times the clock moves on to the next month during a behaviour
MaxTicks == 1

WorkBlocks ==
    {"Senior Software Engineer at Acme\n2019 - 2021\nBuilt services in Python",
     "Junior Developer at Initech\nJan 2018 - Mar 2021\nUsed React daily",
     "Tech Lead at Initech\n2020 - present\nLeads the Python team",
     "Director of Engineering at Globex\n2015-2020"}

\* the blocks of a list, a blank line between two
join_blocks(l) ==
    join_range([i \in 1..Len(l) |-> IF i = 1 THEN l[1] ELSE "\n\n" \o l[i]], 1, Len(l))

\* lists of up to n different work blocks
RECURSIVE EntryLists(_)
EntryLists(n) ==
    IF n <= 0 THEN {<<>>}
    ELSE EntryLists(n - 1)
         \cup {Append(x[1], x[2]) : x \in
                  {y \in EntryLists(n - 1) \X WorkBlocks :
                      \A i \in 1..Len(y[1]) : y[1][i] # y[2]}}

\* the work entries of a resume: up to n different blocks
WorkTexts(n) == {join_blocks(l) : l \in EntryLists(n)}

ResumeScreener == "Resume Screener\nRanks resumes with Python and React"
ChessClock == "Chess Clock App\nDeployed for users, built in Go"

\* resumes without headers, with an experience section, with a project section
\* of one or two projects after an education section, and with a project
\* section straight after the work entries
Resumes ==
    WorkTexts(MaxEntries)
    \cup {"Jane Doe\nExperience\n" \o w : w \in WorkTexts(MaxEntries)}
    \cup {"Jane Doe\nWork Experience:\n" \o w \o "\n\nEducation\nBSc\n\nProjects\n"
              \o ResumeScreener : w \in WorkTexts(MaxEntries - 1)}
    \cup {"Jane Doe\nWork Experience:\n" \o w \o "\n\nEducation\nBSc\n\nProjects\n"
              \o ResumeScreener \o "\n\n" \o ChessClock : w \in WorkTexts(MaxEntries - 2)}
    \cup {"Jane Doe\nExperience\n" \o w \o "\n\nProjects\n" \o ChessClock :
             w \in WorkTexts(MaxEntries - 1)}

RequiredSkillLists == {<<>>, <<"python", "React">>}

\* <<year, month>> of datetime.now() when the first call is made
Clocks == {<<2026, 12>>}

\* the clock one month later
next_month(c) == IF c[2] = 12 THEN <<c[1] + 1, 1>> ELSE <<c[1], c[2] + 1>>

(***************************************************************************)
(* ExperienceDetector: analyze_experience called twice on one resume,      *)
(* while the clock runs.                                                   *)
(***************************************************************************)
EdInit ==
    /\ ed_text \in Resumes
    /\ required_skills \in RequiredSkillLists
    /\ clock \in Clocks
    /\ ticks = 0
    /\ ed_pc = "call"
    /\ call = 1
    /\ entries = <<>>
    /\ work_experiences = <<>>
    /\ projects = <<>>
    /\ analysis = None
    /\ first_analysis = None
    /\ DbIdle
    /\ ExIdle
    /\ DpIdle

\* time passes.  The clock is read only in the loop over the work entries, so
\* it is moved there and between the two calls; a move at another point of a
\* call shows in nothing before one of these.
Tick ==
    /\ ed_pc \in {"work", "done"}
    /\ ticks < MaxTicks
    /\ clock' = next_month(clock)
    /\ ticks' = ticks + 1
    /\ UNCHANGED <<ed_text, required_skills, ed_pc, call, entries, work_experiences,
                   projects, analysis, first_analysis>>
    /\ UNCHANGED <<db_vars, ex_vars, dp_vars>>

\* _extract_work_experiences up to its loop: the experience section, or the
\* whole text when there is none, split into entries
ExtractWorkEntries ==
    /\ ed_pc = "call"
    /\ LET exp_section == _find_section(ed_text, EXPERIENCE_HEADERS)
       IN  entries' = _split_into_entries(IF exp_section \in {None, ""}
                                          THEN ed_text ELSE exp_section)
    /\ ed_pc' = "work"
    /\ UNCHANGED <<ed_text, required_skills, clock, ticks, call, work_experiences,
                   projects, analysis, first_analysis>>
    /\ UNCHANGED <<db_vars, ex_vars, dp_vars>>

\* one round of the loop of _extract_work_experiences; _extract_dates reads
\* the clock for the year and then for the month, and the month may have
\* changed in between
ParseExperienceEntry ==
    /\ ed_pc = "work"
    /\ entries # <<>>
    /\ \E later \in {clock} \cup (IF ticks < MaxTicks THEN {next_month(clock)} ELSE {}) :
          /\ work_experiences' =
                 Append(work_experiences,
                        _parse_experience_entry(entries[1], clock[1], later[2]))
          /\ clock' = later
          /\ ticks' = IF later = clock THEN ticks ELSE ticks + 1
    /\ entries' = Tail(entries)
    /\ UNCHANGED <<ed_text, required_skills, ed_pc, call, projects, analysis, first_analysis>>
    /\ UNCHANGED <<db_vars, ex_vars, dp_vars>>

\* _extract_projects up to its loop: no project section, no projects
ExtractProjectEntries ==
    /\ ed_pc = "work"
    /\ entries = <<>>
    /\ LET proj_section == _find_section(ed_text, PROJECT_HEADERS)
       IN  entries' = IF proj_section \in {None, ""} THEN <<>>
                      ELSE _split_into_entries(proj_section)
    /\ ed_pc' = "projects"
    /\ UNCHANGED <<ed_text, required_skills, clock, ticks, call, work_experiences,
                   projects, analysis, first_analysis>>
    /\ UNCHANGED <<db_vars, ex_vars, dp_vars>>

\* one round of the loop of _extract_projects
ParseProjectEntry ==
    /\ ed_pc = "projects"
    /\ entries # <<>>
    /\ projects' = Append(projects, _parse_project_entry(entries[1]))
    /\ entries' = Tail(entries)
    /\ UNCHANGED <<ed_text, required_skills, clock, ticks, ed_pc, call, work_experiences,
                   analysis, first_analysis>>
    /\ UNCHANGED <<db_vars, ex_vars, dp_vars>>

\* the rest of analyze_experience: totals, relevance, gaps, trajectory,
\* seniority, and the return
Analyze ==
    /\ ed_pc = "projects"
    /\ entries = <<>>
    /\ analysis' = ExperienceAnalysis(work_experiences, projects,
                                      required_or_empty(required_skills))
    /\ ed_pc' = "done"
    /\ UNCHANGED <<ed_text, required_skills, clock, ticks, call, entries, work_experiences,
                   projects, first_analysis>>
    /\ UNCHANGED <<db_vars, ex_vars, dp_vars>>

\* the caller keeps the analysis and calls analyze_experience again with the
\* same text and required_skills
CallAgain ==
    /\ ed_pc = "done"
    /\ call = 1
    /\ first_analysis' = analysis
    /\ call' = 2
    /\ ed_pc' = "call"
    /\ work_experiences' = <<>>
    /\ projects' = <<>>
    /\ analysis' = None
    /\ UNCHANGED <<ed_text, required_skills, clock, ticks, entries>>
    /\ UNCHANGED <<db_vars, ex_vars, dp_vars>>

EdNext ==
    \/ Tick
    \/ ExtractWorkEntries
    \/ ParseExperienceEntry
    \/ ExtractProjectEntries
    \/ ParseProjectEntry
    \/ Analyze
    \/ CallAgain

(***************************************************************************)
(* ExperienceDetector: analyze_experience called once on resumes built to  *)
(* bring out the aggregates, the date rules and the section rules.         *)
(***************************************************************************)
\* the most positions of a career
MaxPositions == 3

Junior == "Junior Developer at Initech\nJan 2018 - Dec 2020\nUsed React daily"
Senior == "Senior Developer at Acme\nJan 2019 - Jan 2021\nBuilt services in Python"
Architect == "Software Architect at Globex\nJan 2013 - Jan 2021\nDesigned python pipelines"
NoDates == "Software Engineer\nDid things."

\* careers of up to n positions, each junior, senior or architect
RECURSIVE Careers(_)
Careers(n) ==
    IF n <= 0 THEN {<<>>}
    ELSE Careers(n - 1)
         \cup {Append(c, b) : c \in {d \in Careers(n - 1) : Len(d) = n - 1},
                              b \in {Junior, Senior, Architect}}

\* careers as texts without headers, and short careers under a header with a
\* project section after an education section
CareerResumes ==
    {join_blocks(c) : c \in Careers(MaxPositions)}
    \cup {"Jane Doe\nWork Experience:\n" \o join_blocks(c) \o "\n\nEducation\nBSc\n\nProjects\n" \o p :
             c \in Careers(MaxPositions - 2),
             p \in {ResumeScreener, ResumeScreener \o "\n\n" \o ChessClock}}

\* positions of 36 and of 95 months without a level in the title, and a
\* position without dates alone and after a dated one
YearsResumes ==
    {"Data Analyst at Hooli\nJan 2018 - Jan 2021\nWrote reports",
     "Data Analyst at Hooli\nJan 2013 - Dec 2020\nWrote reports",
     NoDates,
     Senior \o "\n\n" \o NoDates}

\* date lines: a year range that ends before it starts, that starts after the
\* year of the clock, that starts and that ends in it, ranges written with
\* "to" and with an en dash, month-year pairs that end before or when they
\* start, a single month-year, a year range within one year, a year range
\* after two month-years, and three month-years
DateLines ==
    {"2021 - 2019", "2027 - present", "2026 - now", "2019 to current", "2018=2026",
     "Mar 2021 - Jan 2018", "Jan 2020 - Jan 2020", "Since Jan 2018", "2020 - 2020",
     "Jan 2018 - Mar 2019, again 2020 - 2022", "Feb 2018 - Mar 2019 - Dec 2020"}

DateResumes == {"Software Engineer at Acme\n" \o d \o "\nBuilt things" : d \in DateLines}

\* an experience header on the first line, a header after a line of text with
\* nothing under it, and a header after a name with a skills section after
\* the entry
HeaderResumes ==
    {"Experience\n" \o Senior,
     "Work Experience:\n" \o Junior \o "\n\n" \o Senior,
     "Jane Doe, Data Analyst at Hooli\nExperience:",
     "Jane Doe\nExperience\n" \o Senior \o "\n\nSkills\nPython, React and a lot more"}

\* blocks of 19, 20 and 21 characters, alone, between spaces, and before a
\* longer block
BoundaryBlocks == {"Engineer at Initech", "Developer at Initech", "Developers at Initech"}

LengthResumes ==
    BoundaryBlocks
    \cup {"  " \o b \o " \n\n" \o Senior : b \in BoundaryBlocks}

\* first lines whose level word stands after, or apart from, the word of the
\* role, and first lines whose level word stands just before it
TitleLines ==
    {"Engineering Manager", "VP of Engineering", "CTO and Lead Engineer",
     "Staff Engineer", "Senior Manager of Engineering", "Tech Lead"}

TitleResumes == {l \o " at Initech\nJan 2019 - Jan 2021\nLed a team" : l \in TitleLines}

AnalysisResumes ==
    CareerResumes \cup YearsResumes \cup DateResumes \cup HeaderResumes \cup LengthResumes
        \cup TitleResumes

AnalysisSkillLists == {<<>>, <<"Python">>}

AnInit ==
    /\ ed_text \in AnalysisResumes
    /\ required_skills \in AnalysisSkillLists
    /\ clock \in Clocks
    /\ ticks = 0
    /\ ed_pc = "call"
    /\ call = 1
    /\ entries = <<>>
    /\ work_experiences = <<>>
    /\ projects = <<>>
    /\ analysis = None
    /\ first_analysis = None
    /\ DbIdle
    /\ ExIdle
    /\ DpIdle

AnNext ==
    \/ ExtractWorkEntries
    \/ ParseExperienceEntry
    \/ ExtractProjectEntries
    \/ ParseProjectEntry
    \/ Analyze

(***************************************************************************)
(* DocumentProcessor.process_bytes.  Bytes are written as strings; "#"     *)
(* stands for the byte 0xFF, which no UTF-8 text holds.                    *)
(***************************************************************************)
\* os.path.splitext(filename)[1]: from the last dot of the last path
\* component, unless only dots stand before it there
splitext(name) ==
    LET slashes == {i \in 1..Len(name) : At(name, i) = "/"}
        base == IF slashes = {} THEN 1 ELSE Greatest(slashes) + 1
        leading == {i \in base..Len(name) : \A k \in base..i : At(name, k) = "."}
        dots == {i \in base..Len(name) : At(name, i) = "."} \ leading
    IN  IF dots = {} THEN "" ELSE SubSeq(name, Greatest(dots), Len(name))

\* _detect_type_from_extension
_detect_type_from_extension(name) ==
    LET ext == lower(splitext(name))
    IN  IF ext = ".pdf" THEN "pdf"
        ELSE IF ext \in {".docx", ".doc"} THEN "docx"
        ELSE IF ext = ".txt" THEN "text"
        ELSE "unknown"

\* what a call ends with when it raises NameError
NameError == "<NameError: name 'cls' is not defined>"

\* _detect_type_from_content: a static method, so the name cls its third
\* branch evaluates is not defined
_detect_type_from_content(bytes) ==
    IF StartsWithAt(bytes, 0, "%PDF") THEN "pdf"
    ELSE IF StartsWithAt(bytes, 0, "PK") THEN "docx"
    ELSE NameError

\* content.decode('utf-8'): the text, or the message of the UnicodeDecodeError
\* as <<FALSE, message>>
decode(bytes) ==
    LET bad == {i \in 1..Len(bytes) : At(bytes, i) = "#"}
    IN  IF bad = {} THEN <<TRUE, bytes>>
        ELSE <<FALSE, "'utf-8' codec can't decode byte 0xff in position "
                          \o to_str(Least(bad) - 1) \o ": invalid start byte">>

\* what the parser of a type may do with the bytes: <<TRUE, text>> when it
\* returns, <<FALSE, message>> when it raises.  The PDF and DOCX readers are
\* libraries, so every outcome of theirs is possible on every content.
ParserOutcomes(type, bytes) ==
    IF type = "pdf"
    THEN {<<TRUE, "">>, <<TRUE, "Jane Doe">>,
          <<FALSE, "Failed to parse PDF from bytes: ">>,
          <<FALSE, "Failed to parse PDF from bytes: EOF marker not found">>}
    ELSE IF type = "docx"
    THEN {<<TRUE, "">>, <<TRUE, "Jane Doe">>,
          <<FALSE, "Failed to parse DOCX from bytes: ">>,
          <<FALSE, "Failed to parse DOCX from bytes: File is not a zip file">>}
    ELSE IF type = "text" THEN {decode(bytes)}
    ELSE {<<TRUE, "">>}

ParseResult(success, t, type, error, name) ==
    [success |-> success, text |-> t, document_type |-> type, error |-> error,
     filename |-> name]

Contents == {"", "hello", "%PDF-1.7", "%PD", "PK34", "#", "hi#"}
Filenames == {"cv.pdf", "cv.PDF", "cv.docx", "cv.doc", "cv.txt", "cv", "cv.bin", ".pdf", "a.b/cv"}

DpInit ==
    /\ content \in Contents
    /\ filename \in Filenames
    /\ dp_pc = "call"
    /\ doc_type = None
    /\ result = None
    /\ DbIdle
    /\ ExIdle
    /\ EdIdle

\* the type from the extension, else from the content; the exception of the
\* second is not caught and ends the call
DetectType ==
    /\ dp_pc = "call"
    /\ LET by_extension == _detect_type_from_extension(filename)
           type == IF by_extension = "unknown"
                   THEN _detect_type_from_content(content) ELSE by_extension
       IN  /\ doc_type' = IF type = NameError THEN by_extension ELSE type
           /\ dp_pc' = IF type = NameError THEN "raised" ELSE "typed"
    /\ UNCHANGED <<content, filename, result>>
    /\ UNCHANGED <<db_vars, ex_vars, ed_vars>>

\* the rest of process_bytes: the failure for an unknown type, else the
\* parser of the type inside try/except
Parse ==
    /\ dp_pc = "typed"
    /\ \E outcome \in ParserOutcomes(doc_type, content) :
          result' =
              IF doc_type = "unknown"
              THEN ParseResult(FALSE, "", doc_type,
                               "Could not determine file type for: " \o filename, filename)
              ELSE IF outcome[1]
              THEN ParseResult(TRUE, outcome[2], doc_type, None, filename)
              ELSE ParseResult(FALSE, "", doc_type, outcome[2], filename)
    /\ dp_pc' = "returned"
    /\ UNCHANGED <<content, filename, doc_type>>
    /\ UNCHANGED <<db_vars, ex_vars, ed_vars>>

DpNext == DetectType \/ Parse

(***************************************************************************)
(* The calls as functions of their arguments: what a call returns when it  *)
(* runs alone.                                                             *)
(***************************************************************************)
\* the loop of extract_skills over the matches of one sentence; every step
\* binds the list so far and the matches left as values
RECURSIVE scan_matches(_, _, _)
scan_matches(found, sentence, so_far) ==
    IF found = <<>> THEN so_far
    ELSE LET seen == {lower(so_far[i].normalized_name) : i \in 1..Len(so_far)}
         IN  CHOOSE r \in
                 {scan_matches(rest, sentence, next) :
                     rest \in {Tail(found)},
                     next \in {IF already_seen(normalize(found[1]), seen) THEN so_far
                                ELSE Append(so_far, ExtractedSkill(found[1], sentence))}} : TRUE

\* the loop of extract_skills over the sentences
RECURSIVE scan_sentences(_, _)
scan_sentences(left, so_far) ==
    IF left = <<>> THEN so_far
    ELSE CHOOSE r \in
             {scan_sentences(rest, next) :
                 rest \in {Tail(left)},
                 next \in {scan_matches(found, left[1], so_far) :
                               found \in {findall_skills(lower(left[1]), 0)}}} : TRUE

\* SkillExtractor.extract_skills
extract_skills(t) ==
    CHOOSE r \in {scan_sentences(all, <<>>) : all \in {_split_sentences(t)}} : TRUE

\* the loop of _extract_work_experiences
RECURSIVE parse_experiences(_, _, _, _)
parse_experiences(left, now_year, now_month, so_far) ==
    IF left = <<>> THEN so_far
    ELSE CHOOSE r \in
             {parse_experiences(rest, now_year, now_month, next) :
                 rest \in {Tail(left)},
                 next \in {Append(so_far,
                                   _parse_experience_entry(left[1], now_year, now_month))}} : TRUE

\* the loop of _extract_projects
RECURSIVE parse_projects(_, _)
parse_projects(left, so_far) ==
    IF left = <<>> THEN so_far
    ELSE CHOOSE r \in
             {parse_projects(rest, next) :
                 rest \in {Tail(left)},
                 next \in {Append(so_far, _parse_project_entry(left[1]))}} : TRUE

\* ExperienceDetector.analyze_experience
analyze_experience(t, required, now_year, now_month) ==
    LET exp_section == _find_section(t, EXPERIENCE_HEADERS)
        proj_section == _find_section(t, PROJECT_HEADERS)
    IN  CHOOSE r \in
            {ExperienceAnalysis(parsed, projs, needed) :
                parsed \in {parse_experiences(work, now_year, now_month, <<>>) :
                               work \in {_split_into_entries(IF exp_section \in {None, ""}
                                                             THEN t ELSE exp_section)}},
                projs \in {parse_projects(proj, <<>>) :
                              proj \in {IF proj_section \in {None, ""} THEN <<>>
                                        ELSE _split_into_entries(proj_section)}},
                needed \in {required_or_empty(required)}} : TRUE

(***************************************************************************)
(* The engine: a SkillDatabase call chain, extract_skills and              *)
(* analyze_experience running at the same time, in any interleaving.       *)
(***************************************************************************)
LongLine ==
    "Responsible for many different things across several teams and offices in the whole region over the years"

EngineResume ==
    "CV\nExperience\nSenior Developer at Acme, 2019 - 2021. Expert in python, Python\n\n"
    \o "Projects\nResume Screener in React"

\* empty, blank, header-only, punctuation-only and unstructured texts, and a
\* resume with an experience and a project section
EngineTexts == {"", " \n\t ", "Experience\n", "?!...", LongLine, EngineResume}

\* <<skill, required_skills>> of the calls
EngineArguments ==
    {<<"py", None>>, <<"py", <<"Python", "C++ (">>>>, <<"Quantum Basket", <<>>>>}

EngineInit ==
    /\ \E a \in EngineArguments : skill = a[1] /\ required_skills = a[2]
    /\ db_pc = "start"
    /\ normalized = None
    /\ renormalized = None
    /\ category = None
    /\ categories = SKILL_CATEGORIES
    /\ related = None
    /\ text \in EngineTexts
    /\ ex_pc = "call"
    /\ sentences = <<>>
    /\ matches = <<>>
    /\ seen_skills = {}
    /\ skills = <<>>
    /\ ex_call = 1
    /\ first_skills = <<>>
    /\ ed_text = text
    /\ clock \in Clocks
    /\ ticks = 0
    /\ ed_pc = "call"
    /\ call = 1
    /\ entries = <<>>
    /\ work_experiences = <<>>
    /\ projects = <<>>
    /\ analysis = None
    /\ first_analysis = None
    /\ DpIdle

EngineNext ==
    \/ Normalize
    \/ NormalizeAgain
    \/ GetCategory
    \/ GetRelatedSkills
    \/ CallerAdds
    \/ SplitSentences
    \/ NextSentence
    \/ SkipSeen
    \/ AppendSkill
    \/ EndSentence
    \/ ReturnSkills
    \/ ExtractWorkEntries
    \/ ParseExperienceEntry
    \/ ExtractProjectEntries
    \/ ParseProjectEntry
    \/ Analyze

SpecDb == DbInit /\ [][DbNext]_vars

SpecExtract == ExInit /\ [][ExNext]_vars

SpecExperience == EdInit /\ [][EdNext]_vars

SpecAnalysis == AnInit /\ [][AnNext]_vars

SpecDocument == DpInit /\ [][DpNext]_vars

SpecEngine == EngineInit /\ [][EngineNext]_vars

(***************************************************************************)
(* Claims about the taxonomy.                                              *)
(***************************************************************************)

\* C1: no canonical skill name is a member of two different category sets,
\* so the category get_category returns for a skill is the only category
\* whose set holds the skill's canonical name.
CategoryDisjointness ==
    db_pc = "categorized" =>
        \A c \in CategoryNames : normalized \in CategorySet(c) => category = c

\* C2: normalize is idempotent: normalize(normalize(x)) = normalize(x) for
\* every string x.
NormalizeIdempotent ==
    db_pc \in {"renormalized", "categorized"} => renormalized = normalized

\* C3: for every (alias, canonical) pair of SKILL_ALIASES and every
\* upper/lower-case variant of the alias, normalize(variant) = canonical.
AliasCoverage ==
    db_pc # "start" =>
        \A p \in AliasVariantPairs : skill = p[1] => normalized = p[2]

\* C3 witness: an upper-case variant of an alias whose canonical name is
\* neither the alias nor its title case
AliasCoverageWitness ==
    /\ db_pc = "normalized"
    /\ skill = "REST"
    /\ normalized = "REST API"


(***************************************************************************)
(* Claims about the skill extractor.                                       *)
(***************************************************************************)
\* the level each template phrase stands for, and the order of the tiers
PhraseLevel(p) ==
    CASE p = "5+ years with " -> "expert"
      [] p = "proficient in " -> "proficient"
      [] p = "used " -> "used"
      [] p = "" -> "mentioned"
TierRank(l) ==
    CASE l = "expert" -> 3 [] l = "proficient" -> 2 [] l = "used" -> 1 [] l = "mentioned" -> 0
StrongerLevel(a, b) == IF TierRank(a) >= TierRank(b) THEN a ELSE b

\* the default years of a tier
TierDefault(l) ==
    CASE l = "expert" -> 5 [] l = "proficient" -> 3 [] l = "used" -> 1 [] l = "mentioned" -> 0

\* C6: a sentence whose only qualifying phrase for a skill is an explicit
\* year count of 2, 3 or 4 classifies the skill as proficient, not expert.
TwoToFourYearsProficient ==
    (/\ ex_pc = "done"
     /\ text \in {p \o k : p \in {"2 years with ", "3 years of experience with ", "4 years in "},
                            k \in SkillTerms})
        => /\ Len(skills) = 1
           /\ skills[1].experience_level = "proficient"

\* C7: "5+ years with X" gives expert, "proficient in X" proficient, "used X"
\* used and a bare "X" mentioned; when a sentence holds two of the phrasings
\* the tier tried first (expert, proficient, used, mentioned) decides.
LevelTemplates ==
    ex_pc = "done" =>
        /\ \A p \in TemplatePhrases, k \in SkillTerms :
               text = p \o k =>
                   Len(skills) = 1 /\ skills[1].experience_level = PhraseLevel(p)
        /\ \A p \in TemplatePhrases, q \in TemplatePhrases, k \in {"Python", "React"} :
               text = p \o k \o " and " \o q \o k =>
                   /\ Len(skills) = 1
                   /\ skills[1].experience_level = StrongerLevel(PhraseLevel(p), PhraseLevel(q))

\* C7 witness: the later phrase of the sentence is of the earlier tier
LevelTemplatesWitness ==
    /\ ex_pc = "done"
    /\ text = "used Python and proficient in Python"
    /\ Len(skills) = 1
    /\ skills[1].experience_level = "proficient"

\* C8: the estimated years of a record are an explicit year count only when
\* the count is part of the phrase that matched the tier (the year patterns of
\* the expert and proficient tiers); otherwise they are the tier's default.
YearsFromTierPhrase ==
    ex_pc = "done" =>
        \A i \in 1..Len(skills) :
            LET r == skills[i]
                year_phrase == \/ expert_pattern_4(lower(r.context), r.name)
                               \/ proficient_pattern_4(lower(r.context), r.name)
            IN  ~year_phrase => r.years = TierDefault(r.experience_level)

\* C9: the list extract_skills builds never holds two records whose
\* normalized names are equal ignoring case.
NoDuplicateSkills ==
    \A i \in 1..Len(skills), j \in 1..Len(skills) :
        i < j => lower(skills[i].normalized_name) # lower(skills[j].normalized_name)

\* C9 witness: Python occurs under two aliases in two sentences and is
\* recorded once
NoDuplicateSkillsWitness ==
    /\ ex_pc = "done"
    /\ text = "used python3 and React. expert in py"
    /\ Len(skills) = 2
    /\ skills[1].normalized_name = "Python"
    /\ skills[2].normalized_name = "React"


\* where in the text a record may come from: <<k, q>> for the k-th sentence
\* when it is the record's context and holds the record's name as a match at
\* offset q
RecordPlaces(r) ==
    LET all == _split_sentences(text)
    IN  {<<k, q>> \in (1..Len(all)) \X (0..Len(text)) :
            /\ all[k] = r.context
            /\ q < Len(all[k])
            /\ skill_match_at(lower(all[k]), q) = r.name}

\* C11: extract_skills called twice on the same text returns the same list
\* in the same order, and the records of a list stand in the order of their
\* sentences and, within a sentence, of their matches from left to right.
ExtractOrdered ==
    ex_pc = "done" =>
        /\ ex_call = 2 => skills = first_skills
        /\ \A i \in 1..Len(skills) : \A j \in 1..Len(skills) :
               i < j => \E a \in RecordPlaces(skills[i]) : \E b \in RecordPlaces(skills[j]) :
                            a[1] < b[1] \/ (a[1] = b[1] /\ a[2] < b[2])

\* C11 witness: the second call has returned three records, two of one
\* sentence and one of the next
ExtractOrderedWitness ==
    /\ ex_pc = "done"
    /\ ex_call = 2
    /\ text = "used python3 and React. Spring Boot and Spring"
    /\ Len(skills) >= 3
    /\ skills[1].context = skills[2].context
    /\ skills[2].context # skills[3].context

\* the mentions of the canonical name n in the text: <<k, i>> for the i-th
\* match of the k-th sentence when it normalizes to n, ignoring case
MentionsOf(n) ==
    LET all == _split_sentences(text)
    IN  UNION {{<<k, i>> : i \in {j \in 1..Len(findall_skills(lower(all[k]), 0)) :
                                    lower(normalize(findall_skills(lower(all[k]), 0)[j])) = n}} :
                  k \in 1..Len(all)}

\* the first of a set of mentions in the order of the text
FirstOf(M) == CHOOSE a \in M : \A b \in M : a[1] < b[1] \/ (a[1] = b[1] /\ a[2] <= b[2])

\* C25: the record of a skill carries the raw text, the context sentence, the
\* level and the years of the first match of its canonical name in the order
\* of the text; later matches, in the same or in a later sentence, change
\* nothing.
FirstOccurrenceWins ==
    ex_pc = "done" =>
        \A r \in 1..Len(skills) :
            LET M == MentionsOf(lower(skills[r].normalized_name))
                sentence == _split_sentences(text)[FirstOf(M)[1]]
                match == findall_skills(lower(sentence), 0)[FirstOf(M)[2]]
            IN  /\ M # {}
                /\ skills[r].name = match
                /\ skills[r].context = sentence
                /\ <<skills[r].experience_level, skills[r].years>>
                       = _detect_experience_level(sentence, match)

\* C25 witness: Python is mentioned bare in the first sentence and as
\* "expert in py" in the second, and the record keeps the first
FirstOccurrenceWinsWitness ==
    /\ ex_pc = "done"
    /\ text = "Python. expert in py"
    /\ Len(skills) = 1
    /\ skills[1].name = "python"
    /\ skills[1].context = "Python"
    /\ skills[1].experience_level # _detect_experience_level("expert in py", "py")[1]

\* what findall yields on s from offset p on, with the offsets:
\* <<start, match>> for each match
RECURSIVE MatchesFrom(_, _)
MatchesFrom(s, p) ==
    LET starts == {q \in p..(Len(s) - 1) : skill_match_at(s, q) # None}
    IN  IF starts = {} THEN {}
        ELSE {<<Least(starts), skill_match_at(s, Least(starts))>>}
                 \cup MatchesFrom(s, Least(starts) + Len(skill_match_at(s, Least(starts))))

\* the alternative w stands in s at offset p between word boundaries
OccursAt(s, p, w) ==
    /\ StartsWithAt(s, p, w)
    /\ word_boundary(s, p)
    /\ word_boundary(s, p + Len(w))

\* C26: where a sentence holds a skill of several words that has another
\* skill or alias as a part (and the occurrence is not itself inside a longer
\* alternative), the match is the skill of several words, no match starts
\* inside the occurrence, and the list holds a record with its canonical
\* name.
LongestMatchFirst ==
    ex_pc = "done" =>
        \A k \in 1..Len(_split_sentences(text)) :
            LET s == lower(_split_sentences(text)[k])
                found == MatchesFrom(s, 0)
            IN  \A p \in 0..(Len(s) - 1) : \A w \in CompoundSkills :
                    (/\ OccursAt(s, p, w)
                     /\ ~\E v \in MultiWordAlternatives :
                            Len(v) > Len(w) /\ \E q \in 0..p : q + Len(v) >= p + Len(w)
                                                                  /\ OccursAt(s, q, v)) =>
                        /\ <<p, w>> \in found
                        /\ \A m \in found : m[1] \notin (p + 1)..(p + Len(w) - 1)
                        /\ \E r \in 1..Len(skills) : skills[r].normalized_name = normalize(w)

\* C26 witness: "react native and react" has given React Native from the
\* first occurrence and React from the second
LongestMatchFirstWitness ==
    /\ ex_pc = "done"
    /\ text = "react native and react"
    /\ Len(skills) = 2
    /\ skills[1].name = "react native"
    /\ skills[2].name = "react"

\* C27: extract_skills on a text that is just an alias of the taxonomy
\* returns a record with the canonical name of the alias, and no record of
\* another skill.
EveryAliasExtractable ==
    (ex_pc = "done" /\ text \in AliasKeys) =>
        /\ \E r \in 1..Len(skills) : skills[r].normalized_name = normalize(text)
        /\ \A r \in 1..Len(skills) : skills[r].normalized_name = normalize(text)

(***************************************************************************)
(* Claims about the experience detector.                                   *)
(***************************************************************************)

\* C4: if the title of either of the first two work entries contains an
\* executive keyword (director, vp, vice president, cto, ceo), the seniority
\* estimate is "executive", whatever the total experience and whatever the
\* title of the other of the two entries.
ExecutiveTitleWins ==
    ed_pc = "done" =>
        LET work == analysis.work_experiences
        IN  (\E i \in 1..Len(work) :
                /\ i <= 2
                /\ \E kw \in EXECUTIVE_KEYWORDS : contains(lower(work[i].title), kw))
            => analysis.seniority_estimate = "executive"

\* C5 as stated: the analysis analyze_experience returns has
\* relevant_experience_months <= total_experience_months.
RelevantWithinTotal ==
    ed_pc = "done" =>
        analysis.relevant_experience_months <= analysis.total_experience_months

\* C5, amended: the relevant months exceed the total months by no more than
\* the six months credited for each project of the analysis.
RelevantWithinTotalAndCredit ==
    ed_pc = "done" =>
        analysis.relevant_experience_months
            <= analysis.total_experience_months + ProjectCredit * Len(analysis.projects)

\* C5 witness: required skills are given, a project is found, and the
\* relevant months are the total months plus the whole credit
RelevantWithinTotalAndCreditWitness ==
    /\ ed_pc = "done"
    /\ required_skills # <<>>
    /\ Len(analysis.projects) >= 1
    /\ Len(analysis.work_experiences) >= 1
    /\ analysis.relevant_experience_months
           = analysis.total_experience_months + ProjectCredit * Len(analysis.projects)

\* the end dates that make _extract_dates read the clock
OpenEnds == {"present", "current", "now"}

SeniorTitled ==
    {i \in 1..Len(analysis.work_experiences) :
        \E kw \in {"senior", "lead", "principal", "staff", "manager", "director", "architect"} :
            contains(lower(analysis.work_experiences[i].title), kw)}

NoLevelInRecentTitles ==
    \A i \in 1..Len(analysis.work_experiences) :
        i <= 2 =>
            \A kw \in {"director", "vp", "vice president", "cto", "ceo",
                        "lead", "principal", "staff", "manager", "senior"} :
                ~contains(lower(analysis.work_experiences[i].title), kw)

\* C13: when neither of the first two titles holds a word of a level, the
\* seniority is senior iff the total is at least 96 months, mid iff it is at
\* least 36 and under 96, entry iff it is under 36.
SeniorityByYears ==
    (ed_pc = "done" /\ NoLevelInRecentTitles) =>
        LET m == analysis.total_experience_months
            e == analysis.seniority_estimate
        IN  /\ e \in {"senior", "mid", "entry"}
            /\ e = "senior" <=> m >= 96
            /\ e = "mid" <=> (36 <= m /\ m < 96)
            /\ e = "entry" <=> m < 36

\* C13 witness: one position of exactly 36 months without a level in its
\* title is mid
SeniorityByYearsWitness ==
    /\ ed_pc = "done"
    /\ NoLevelInRecentTitles
    /\ Len(analysis.work_experiences) = 1
    /\ analysis.total_experience_months = 36
    /\ analysis.seniority_estimate = "mid"

\* some required skill is a substring of t, letter case apart
MentionsRequired(t) ==
    \E i \in 1..Len(required_skills) : contains(lower(t), lower(required_skills[i]))

\* the months of the work entries from the i-th on that mention a required
\* skill in their description
RECURSIVE RelevantWorkMonths(_)
RelevantWorkMonths(i) ==
    IF i > Len(analysis.work_experiences) THEN 0
    ELSE (IF MentionsRequired(analysis.work_experiences[i].description)
          THEN analysis.work_experiences[i].duration_months ELSE 0)
         + RelevantWorkMonths(i + 1)

\* the projects that mention a required skill in their name and description
RelevantProjects ==
    {i \in 1..Len(analysis.projects) :
        MentionsRequired(analysis.projects[i].name \o " " \o analysis.projects[i].description)}

\* C14: without required skills the relevant months are the total months;
\* with them they are the months of the work entries whose description
\* mentions a required skill, letter case apart, plus 6 for each project whose
\* name and description mention one.
RelevanceFormula ==
    ed_pc = "done" =>
        analysis.relevant_experience_months =
            IF required_skills = <<>> THEN analysis.total_experience_months
            ELSE RelevantWorkMonths(1) + 6 * Cardinality(RelevantProjects)

\* C14 witness: Python required, a 24-month entry that mentions Python and a
\* 12-month entry that does not, no projects, give 24
RelevanceFormulaWitness ==
    /\ ed_pc = "done"
    /\ required_skills = <<"Python">>
    /\ Len(analysis.work_experiences) = 2
    /\ analysis.work_experiences[1].duration_months = 24
    /\ MentionsRequired(analysis.work_experiences[1].description)
    /\ analysis.work_experiences[2].duration_months = 12
    /\ ~MentionsRequired(analysis.work_experiences[2].description)
    /\ analysis.projects = <<>>
    /\ analysis.relevant_experience_months = 24

(***************************************************************************)
(* Claims about the dates of a work entry.                                 *)
(***************************************************************************)
\* C15: every work entry has a duration of at least one month, whichever
\* date rule applied, and so the total of an analysis is at least the number
\* of its work entries.
DurationFloor ==
    /\ \A i \in 1..Len(work_experiences) : work_experiences[i].duration_months >= 1
    /\ ed_pc = "done" =>
           analysis.total_experience_months >= Len(analysis.work_experiences)

\* C15 witness: the analysis of an entry whose year range ends before it
\* starts, with one month
DurationFloorWitness ==
    /\ ed_pc = "done"
    /\ Len(analysis.work_experiences) = 1
    /\ analysis.work_experiences[1].start_date = "2021"
    /\ analysis.work_experiences[1].end_date = "2019"
    /\ analysis.work_experiences[1].duration_months = 1
    /\ analysis.total_experience_months = 1

\* C16: an entry without a date has 12 months, no start, no end and is
\* current; an entry is current exactly when its end is absent or is one of
\* present, current, now.
DateFallback ==
    \A i \in 1..Len(work_experiences) :
        LET e == work_experiences[i]
        IN  /\ e.is_current <=> e.end_date \in {None, "present", "current", "now"}
            /\ e.start_date = None <=> e.end_date = None
            /\ e.end_date = None => e.duration_months = 12
            /\ (\A k \in 1..Len(e.description) : ~IsDigit(At(e.description, k)))
                   => e.end_date = None

\* C16 witness: the entry of the claim, analysed
DateFallbackWitness ==
    /\ ed_pc = "done"
    /\ ed_text = "Software Engineer\nDid things."
    /\ Len(work_experiences) = 1
    /\ work_experiences[1].duration_months = 12
    /\ work_experiences[1].start_date = None
    /\ work_experiences[1].end_date = None
    /\ work_experiences[1].is_current

(***************************************************************************)
(* Claims about the sections of a resume.                                  *)
(***************************************************************************)
HeaderPhrases ==
    {"experience", "work experience", "employment history", "professional experience",
     "career history", "work history"}

\* the offsets just after a line that is an experience header phrase followed
\* by a colon or a line break: where the body of the section starts
HeaderBodyStarts ==
    LET t == lower(ed_text)
        line_starts == {0} \cup {p + 1 : p \in Newlines(t)}
        line_end_of(a) == IF \E p \in Newlines(t) : p >= a
                          THEN Least({p \in Newlines(t) : p >= a}) ELSE Len(t)
        is_header(a) ==
            LET l == strip(SubSeq(t, a + 1, line_end_of(a)))
            IN  \/ l \in {h \o ":" : h \in HeaderPhrases}
                \/ l \in HeaderPhrases /\ line_end_of(a) < Len(t)
    IN  {(IF line_end_of(a) < Len(t) THEN line_end_of(a) + 1 ELSE Len(t)) :
            a \in {b \in line_starts : is_header(b)}}

\* the body of the experience section: from the first header line to the next
\* major header or the end of the text
SectionBody ==
    LET start == Least(HeaderBodyStarts)
        majors == major_starts(lower(ed_text), start - 1)
        end == IF majors = {} THEN Len(ed_text) ELSE Least(majors)
    IN  SubSeq(ed_text, start + 1, end)

\* C20: when the text has an experience header line, the work entries are
\* taken from the body of the section only.
EntriesFromSectionOnly ==
    (ed_pc = "done" /\ HeaderBodyStarts # {}) =>
        \A i \in 1..Len(analysis.work_experiences) :
            contains(SectionBody, analysis.work_experiences[i].description)

\* a project whose name and description are both inside the description of
\* a work experience: the block was taken up as a position and as a project
ProjectAmongPositions(work, projs) ==
    \E i \in 1..Len(work), j \in 1..Len(projs) :
        /\ contains(work[i].description, projs[j].name)
        /\ contains(work[i].description, projs[j].description)

\* C21: when the text has a work-experience section and a project section,
\* no block of the text is returned both as a WorkExperience and as a
\* Project, so the months of the positions are those of the entries that are
\* not projects.
SectionsDoNotOverlap ==
    (/\ ed_pc = "done"
     /\ _find_section(ed_text, EXPERIENCE_HEADERS) \notin {None, ""}
     /\ _find_section(ed_text, PROJECT_HEADERS) \notin {None, ""}) =>
        ~ProjectAmongPositions(analysis.work_experiences, analysis.projects)

\* the fragments of the text between runs of blank lines, trimmed, that have
\* n characters or more
FragmentsOfAtLeast(n) ==
    LET kept == SelectSeq(split_blank_lines(ed_text), LAMBDA e : Len(strip(e)) >= n)
    IN  [k \in 1..Len(kept) |-> strip(kept[k])]

\* C22: the entries of a text without an experience header are its trimmed
\* fragments of 20 characters or more, in their order in the text; only
\* shorter fragments are discarded.
NoiseFilterBoundary ==
    (ed_pc = "done" /\ _find_section(ed_text, EXPERIENCE_HEADERS) \in {None, ""}) =>
        [i \in 1..Len(analysis.work_experiences) |-> analysis.work_experiences[i].description]
            = FragmentsOfAtLeast(20)

\* a date that is a year of four digits
IsYearString(d) ==
    /\ d # None
    /\ Len(d) = 4
    /\ \A i \in 1..4 : IsDigit(At(d, i))

\* C23: a work entry dated by a range of two four-digit years Y1-Y2 has
\* duration_months = max(1, (Y2 - Y1) * 12), both years taken at mid-year;
\* a range within one year gives 1.
YearRangeDuration ==
    ed_pc = "done" =>
        \A i \in 1..Len(analysis.work_experiences) :
            LET w == analysis.work_experiences[i]
            IN  (IsYearString(w.start_date) /\ IsYearString(w.end_date)) =>
                    LET span == (to_int(w.end_date) - to_int(w.start_date)) * 12
                    IN  w.duration_months = IF span > 1 THEN span ELSE 1

\* a year range occurs in the entry
HasYearRange(entry) ==
    \E p \in Offsets(lower(entry)) : range_end_starts(lower(entry), p) # {}

\* the month-year tokens of s from offset p on, in their order, each as
\* <<month, year, end offset>>
RECURSIVE MonthYearTokens(_, _)
MonthYearTokens(s, p) ==
    IF next_month_year(s, p) = None THEN <<>>
    ELSE <<next_month_year(s, p)>> \o MonthYearTokens(s, next_month_year(s, p)[3])

\* C24: the date rules are tried in the order year range, month-year tokens,
\* default.  An entry with a year range is dated by it; without one, an entry
\* with two or more month-year tokens is dated from the first to the second
\* with max(1, (end_year - start_year) * 12 + (end_month - start_month))
\* months; any other entry has no dates and 12 months.
DateRuleOrder ==
    ed_pc = "done" =>
        \A i \in 1..Len(analysis.work_experiences) :
            LET w == analysis.work_experiences[i]
                tokens == MonthYearTokens(lower(w.description), 0)
            IN  /\ HasYearRange(w.description) =>
                       /\ IsYearString(w.start_date)
                       /\ \/ IsYearString(w.end_date)
                          \/ w.end_date \in {"present", "current", "now"}
                /\ (~HasYearRange(w.description) /\ Len(tokens) >= 2) =>
                       LET span == (to_int(tokens[2][2]) - to_int(tokens[1][2])) * 12
                                      + (months(tokens[2][1]) - months(tokens[1][1]))
                       IN  /\ w.start_date = title(tokens[1][1]) \o " " \o tokens[1][2]
                           /\ w.end_date = title(tokens[2][1]) \o " " \o tokens[2][2]
                           /\ w.duration_months = IF span > 1 THEN span ELSE 1
                /\ (~HasYearRange(w.description) /\ Len(tokens) < 2) =>
                       /\ w.start_date = None
                       /\ w.end_date = None
                       /\ w.duration_months = 12

\* an entry with two month-year tokens and a year range after them has been
\* dated, one with three tokens too, and one with a single token
DateRuleOrderWitness ==
    /\ ed_pc = "done"
    /\ Len(analysis.work_experiences) = 1
    /\ LET w == analysis.work_experiences[1]
       IN  /\ HasYearRange(w.description)
           /\ Len(MonthYearTokens(lower(w.description), 0)) = 2
           /\ w.start_date = "2020"

(***************************************************************************)
(* Claims about the title of a work entry.                                 *)
(***************************************************************************)
\* the words the trajectory and the seniority look for in a title
TitleKeywords == SENIOR_KEYWORDS \cup EXECUTIVE_KEYWORDS \cup LEAD_KEYWORDS

\* C28: a keyword of the trajectory or seniority analysis that the first
\* line of a work entry holds is also held by the title of the
\* WorkExperience.
TitleKeepsKeywords ==
    ed_pc = "done" =>
        \A i \in 1..Len(analysis.work_experiences) :
            LET w == analysis.work_experiences[i]
                first_line == lower(split_lines(w.description)[1])
            IN  \A kw \in TitleKeywords :
                    contains(first_line, kw) => contains(lower(w.title), kw)

(***************************************************************************)
(* Claims about the document processor.                                    *)
(***************************************************************************)
\* neither the extension nor the content tells the type
TypeUndetermined ==
    /\ _detect_type_from_extension(filename) = "unknown"
    /\ ~StartsWithAt(content, 0, "%PDF")
    /\ ~StartsWithAt(content, 0, "PK")
    /\ ~decode(content)[1]

\* C19: process_bytes returns a ParseResult for every content and filename
\* and lets no exception out; when the type cannot be determined or the
\* parser fails, the result has success False, an empty text and an error
\* that is not empty.
GracefulDocumentErrors ==
    /\ dp_pc # "raised"
    /\ dp_pc = "returned" =>
           /\ TypeUndetermined => ~result.success
           /\ ~result.success => (result.text = "" /\ result.error \notin {None, ""})

(***************************************************************************)
(* Claims about the engine as a whole.                                     *)
(***************************************************************************)
\* C17: on every text and every required_skills value both calls are at a
\* step of their code until they return, and every entry they take up has a
\* first line; a title, a company, a date or a project section that is not
\* found gives Unknown Position, Unknown Company, 12 months and no projects;
\* an empty text gives no skills and an analysis with no entries, total 0,
\* insufficient_data and entry.
NoFailureExits ==
    /\ ex_pc \in {"call", "sentence", "match", "done"}
    /\ ed_pc \in {"call", "work", "projects", "done"}
    /\ \A i \in 1..Len(entries) : split_lines(entries[i]) # <<>>
    /\ ed_pc = "done" =>
           /\ \A i \in 1..Len(analysis.work_experiences) :
                  LET e == analysis.work_experiences[i]
                      first_line == split_lines(e.description)[1]
                  IN  /\ e.title \notin {None, ""}
                      /\ e.company \notin {None, ""}
                      /\ _extract_title(first_line) = None => e.title = "Unknown Position"
                      /\ _extract_company(e.description) = None
                             => e.company = "Unknown Company"
                      /\ e.start_date = None => e.duration_months = 12
           /\ _find_section(ed_text, PROJECT_HEADERS) = None => analysis.projects = <<>>
           /\ required_skills = None =>
                  analysis.relevant_experience_months = analysis.total_experience_months
           /\ ed_text = "" =>
                  /\ analysis.work_experiences = <<>>
                  /\ analysis.projects = <<>>
                  /\ analysis.total_experience_months = 0
                  /\ analysis.experience_trajectory = "insufficient_data"
                  /\ analysis.seniority_estimate = "entry"
    /\ (ex_pc = "done" /\ text = "") => skills = <<>>

\* C17 witness: both calls have returned on a text without any structure,
\* called without required skills: one entry, all placeholders
NoFailureExitsWitness ==
    /\ ex_pc = "done"
    /\ ed_pc = "done"
    /\ ed_text = LongLine
    /\ required_skills = None
    /\ skills = <<>>
    /\ Len(analysis.work_experiences) = 1
    /\ analysis.work_experiences[1].title = "Unknown Position"
    /\ analysis.work_experiences[1].company = "Unknown Company"
    /\ analysis.work_experiences[1].duration_months = 12
    /\ analysis.projects = <<>>

\* C18: in every interleaving of a normalize / get_category /
\* get_related_skills chain, extract_skills and analyze_experience, the
\* category sets stay as constructed, whatever the caller does with the set
\* get_related_skills handed out, and when all have returned each has
\* returned what it returns alone.
CallsDoNotInterfere ==
    /\ categories = SKILL_CATEGORIES
    /\ (db_pc = "added" /\ ex_pc = "done" /\ ed_pc = "done") =>
           /\ normalized = normalize(skill)
           /\ category = get_category(skill)
           /\ related.members \ {"Caller Skill"} =
                  IF category = None THEN {} ELSE CategorySet(category)
           /\ skills = extract_skills(text)
           /\ analysis = analyze_experience(ed_text, required_skills, clock[1], clock[2])

\* C18 witness: all three have returned, the caller has added a name to the
\* set of a category it was handed
CallsDoNotInterfereWitness ==
    /\ db_pc = "added"
    /\ category = "programming_languages"
    /\ "Caller Skill" \in related.members
    /\ ex_pc = "done"
    /\ Len(skills) = 2
    /\ ed_pc = "done"
    /\ Len(analysis.work_experiences) = 2
    /\ Len(analysis.projects) = 1

=============================================================================
